---- MODULE Spec2Model ----
(***************************************************************************)
(* Model of the robo-advisory core: PortfolioManager.create_portfolio      *)
(* (portfolio_manager.py) and AIRebalancer (rebalancer.py).                *)
(*                                                                         *)
(* Fixed-point units used throughout:                                      *)
(*   money                     rupees (integers)                           *)
(*   percentages               whole percent, or "tenths" where stated     *)
(*   expected_return, risk     hundredths of a percent (10.70% = 1070)     *)
(*   risk_score                tenths (8.5 = 85)                           *)
(*   daily / cumulative return basis points, Scale = 10000 is 1.0          *)
(*   volatility                hundredths of a percent (18.0 = 1800)       *)
(*   momentum, confidence      1/10000 (0.03 = 300, 0.95 = 9500)           *)
(*   correlation               1/1000                                      *)
(***************************************************************************)
EXTENDS Integers, Sequences, FiniteSets, TLC

VARIABLES hashSalt, rng, hour, portfolio, created, result, seen, threads

vars == <<hashSalt, rng, hour, portfolio, created, result, seen, threads>>

(***************************************************************************)
(* Bounds of the model.                                                    *)
(***************************************************************************)
\* number of whole days the clock can advance
MaxDays == 2
\* size of the seed / generator state space standing for 2**32
SeedSpace == 4
\* number of per-process string-hash salts (PYTHONHASHSEED values)
MaxSalt == 1
\* number of times a running analysis is preempted by another thread
MaxSwitches == 2

\* 1.0 in basis points
Scale == 100 * 100

(***************************************************************************)
(* Generic helpers.                                                        *)
(***************************************************************************)
RECURSIVE SumSeq(_)
SumSeq(s) == IF s = <<>> THEN 0 ELSE Head(s) + SumSeq(Tail(s))

RECURSIVE SumOver(_, _)
SumOver(f, S) ==
    IF S = {} THEN 0
    ELSE LET x == CHOOSE y \in S : TRUE IN f[x] + SumOver(f, S \ {x})

Abs(x) == IF x < 0 THEN -x ELSE x
Max(a, b) == IF a > b THEN a ELSE b
Min(a, b) == IF a < b THEN a ELSE b

\* floor of the square root (np.sqrt in fixed point)
RECURSIVE IsqrtBetween(_, _, _)
IsqrtBetween(n, lo, hi) ==
    IF lo >= hi THEN lo
    ELSE LET mid == (lo + hi + 1) \div 2
         IN IF mid * mid <= n THEN IsqrtBetween(n, mid, hi)
            ELSE IsqrtBetween(n, lo, mid - 1)
Isqrt(n) == IsqrtBetween(n, 0, 40000)

(***************************************************************************)
(* PortfolioManager.__init__ : the asset class catalog and the fund pools. *)
(***************************************************************************)
RiskTiers == {"Low", "Medium", "High"}

\* dict insertion order of self.asset_classes
AssetOrder == <<"Large Cap Equity", "Mid Cap Equity", "Small Cap Equity",
                "Debt Funds", "Gold ETF", "International Funds">>

AssetClasses == {AssetOrder[i] : i \in 1..Len(AssetOrder)}

asset_classes ==
    [a \in AssetClasses |->
        CASE a = "Large Cap Equity" ->
               [return |-> 12, risk |-> 15,
                allocation |-> [Low |-> 20, Medium |-> 35, High |-> 50]]
          [] a = "Mid Cap Equity" ->
               [return |-> 15, risk |-> 20,
                allocation |-> [Low |-> 5, Medium |-> 15, High |-> 25]]
          [] a = "Small Cap Equity" ->
               [return |-> 18, risk |-> 25,
                allocation |-> [Low |-> 0, Medium |-> 5, High |-> 15]]
          [] a = "Debt Funds" ->
               [return |-> 7, risk |-> 3,
                allocation |-> [Low |-> 60, Medium |-> 35, High |-> 5]]
          [] a = "Gold ETF" ->
               [return |-> 8, risk |-> 12,
                allocation |-> [Low |-> 10, Medium |-> 5, High |-> 3]]
          [] a = "International Funds" ->
               [return |-> 10, risk |-> 18,
                allocation |-> [Low |-> 5, Medium |-> 5, High |-> 2]]]

sample_funds ==
    [a \in AssetClasses |->
        CASE a = "Large Cap Equity" ->
               <<"HDFC Top 100 Fund", "ICICI Pru Bluechip Fund", "SBI Large Cap Fund">>
          [] a = "Mid Cap Equity" ->
               <<"HDFC Mid-Cap Opportunities Fund", "Axis Midcap Fund", "Kotak Emerging Equity">>
          [] a = "Small Cap Equity" ->
               <<"SBI Small Cap Fund", "HDFC Small Cap Fund", "Axis Small Cap Fund">>
          [] a = "Debt Funds" ->
               <<"HDFC Corporate Bond Fund", "ICICI Pru Corporate Bond", "Axis Corporate Debt">>
          [] a = "Gold ETF" ->
               <<"HDFC Gold ETF", "SBI Gold ETF", "ICICI Pru Gold ETF">>
          [] a = "International Funds" ->
               <<"Motilal Oswal S&P 500", "HDFC Global Fund", "ICICI Pru US Bluechip">>]

(***************************************************************************)
(* The global numpy random source and Python's salted string hash.         *)
(* The generator is a counter-based generator over 0..SeedSpace-1:         *)
(* seeding sets the counter, every draw reads it and advances it.          *)
(***************************************************************************)
RngStates == 0..(SeedSpace - 1)

\* np.random.seed(s)
Seed(s) == s % SeedSpace

\* state after one draw
RngNext(s) == (s + 1) % SeedSpace

RECURSIVE RngAdvance(_, _)
RngAdvance(s, n) == IF n = 0 THEN s ELSE RngAdvance(RngNext(s), n - 1)

\* standard-normal deviates (in whole sigmas) a draw can produce: a normal
\* draw is unbounded, and the table holds two ordinary and two extreme values
\* so that drifts beyond the thresholds occur within MaxDays days
ZTable == <<-30, 30, 2, -1>>
\* np.random.normal(mu, sigma): one draw from state s
Normal(mu, sigma, s) == mu + sigma * ZTable[(s % Len(ZTable)) + 1]

\* np.random.uniform(lo, hi): one draw from state s, in quarters of the range
Uniform(lo, hi, s) == lo + ((hi - lo) * (s % 4)) \div 4

\* np.random.choice(pool): one draw from state s
Choice(pool, s) == pool[(s % Len(pool)) + 1]

\* position of a fund name in the concatenated pools (only used by the hash)
FundCode(name) ==
    CHOOSE k \in 1..(3 * Len(AssetOrder)) :
        sample_funds[AssetOrder[((k - 1) \div 3) + 1]][((k - 1) % 3) + 1] = name

\* hash(name) % 2**32 under the process salt
HashMod(salt, name) == ((2 * salt + 1) * FundCode(name) + 7 * salt) % SeedSpace

(***************************************************************************)
(* PortfolioManager.create_portfolio                                       *)
(***************************************************************************)
InvestmentAmounts == {100000, 200000}
RiskAppetites == RiskTiers \cup {"Aggressive"}

NoPortfolio ==
    [client_id |-> "none", allocation |-> [a \in AssetClasses |-> 0],
     holdings |-> <<>>, current_value |-> 0, expected_return |-> 0,
     portfolio_risk |-> 0, risk_score |-> 0, sharpe_ratio |-> 0,
     created_date |-> 0]

\* _calculate_risk_score, in tenths
CalculateRiskScore(risk_appetite) ==
    CASE risk_appetite = "Low" -> 30
      [] risk_appetite = "Medium" -> 60
      [] risk_appetite = "High" -> 85
      [] OTHER -> 50

\* variant: the Gold ETF row is read from the Low column for every tier
TierAllocationStaleGold(risk_appetite) ==
    [a \in AssetClasses |->
        IF a = "Gold ETF" THEN asset_classes[a].allocation["Low"]
        ELSE asset_classes[a].allocation[risk_appetite]]

\* details['allocation'][risk_appetite] for every asset class
TierAllocation(risk_appetite) ==
    [a \in AssetClasses |-> asset_classes[a].allocation[risk_appetite]]

\* variant: the weights are applied to the risk column
ExpectedReturnOfRisk(allocation) ==
    SumOver([a \in AssetClasses |-> allocation[a] * asset_classes[a].risk],
            AssetClasses)

\* sum((allocation/100) * return), in hundredths of a percent
ExpectedReturn(allocation) ==
    SumOver([a \in AssetClasses |-> allocation[a] * asset_classes[a].return],
            AssetClasses)

\* sqrt(sum(((allocation/100) * risk) ** 2)), in hundredths of a percent
SimpleRisk(allocation) ==
    Isqrt(SumOver([a \in AssetClasses |->
                     (allocation[a] * asset_classes[a].risk)
                       * (allocation[a] * asset_classes[a].risk)],
                  AssetClasses))

\* variant: a holding is generated for a class at 0% too
RECURSIVE BuildHoldingsAll(_, _, _, _, _)
BuildHoldingsAll(allocation, investment_amount, i, acc, s) ==
    IF i > Len(AssetOrder) THEN <<acc, s>>
    ELSE LET a == AssetOrder[i]
             percentage == allocation[a]
             amount == (percentage * investment_amount) \div 100
         IN BuildHoldingsAll(allocation, investment_amount, i + 1,
                Append(acc, [asset_class |-> a,
                             fund_name |-> Choice(sample_funds[a], s),
                             allocation_pct |-> percentage,
                             amount |-> amount,
                             units100 |-> amount,
                             nav |-> 100]),
                RngNext(s))

\* the holdings loop: one holding per class with percentage > 0, each
\* consuming one np.random.choice draw; returns <<holdings, generator state>>
RECURSIVE BuildHoldings(_, _, _, _, _)
BuildHoldings(allocation, investment_amount, i, acc, s) ==
    IF i > Len(AssetOrder) THEN <<acc, s>>
    ELSE LET a == AssetOrder[i]
             percentage == allocation[a]
             amount == (percentage * investment_amount) \div 100
         IN IF percentage > 0
            THEN BuildHoldings(allocation, investment_amount, i + 1,
                     Append(acc, [asset_class |-> a,
                                  fund_name |-> Choice(sample_funds[a], s),
                                  allocation_pct |-> percentage,
                                  amount |-> amount,
                                  units100 |-> amount,
                                  nav |-> 100]),
                     RngNext(s))
            ELSE BuildHoldings(allocation, investment_amount, i + 1, acc, s)

\* sharpe_ratio = expected_return / portfolio_risk if portfolio_risk > 0 else 0
\* (in hundredths)
SharpeSimple(expected_return, portfolio_risk) ==
    IF portfolio_risk > 0 THEN (100 * expected_return) \div portfolio_risk ELSE 0

\* the portfolio dict built for a recognised tier
BuildPortfolio(name, risk_appetite, investment_amount, s, now) ==
    LET allocation == TierAllocation(risk_appetite)
        er == ExpectedReturn(allocation)
        pr == SimpleRisk(allocation)
    IN [client_id |-> name,
        allocation |-> allocation,
        holdings |-> BuildHoldings(allocation, investment_amount, 1, <<>>, s)[1],
        current_value |-> investment_amount,
        expected_return |-> er,
        portfolio_risk |-> pr,
        risk_score |-> CalculateRiskScore(risk_appetite),
        sharpe_ratio |-> SharpeSimple(er, pr),
        created_date |-> now]

(***************************************************************************)
(* The clock.  hour is int(time.time() / 3600); datetime.now() reads the   *)
(* same clock.  Calls are observed at the start and an hour or so into     *)
(* each later day.                                                         *)
(***************************************************************************)
ClockHours == {0} \cup {25 * d + 1 : d \in 1..MaxDays}

\* (datetime.now() - portfolio['created_date']).days, at least 1
DaysSinceCreation(p, now) ==
    LET d == (now - p.created_date) \div 24 IN IF d < 1 THEN 1 ELSE d

(***************************************************************************)
(* AIRebalancer.__init__ and _get_asset_class_details                      *)
(***************************************************************************)
rebalancing_threshold == 5

\* variant: the rebalancer's table has drifted from the catalog (gold at 9%)
asset_details_diverged ==
    [a \in AssetClasses |->
        CASE a = "Large Cap Equity" -> [return |-> 12, risk |-> 15]
          [] a = "Mid Cap Equity" -> [return |-> 15, risk |-> 20]
          [] a = "Small Cap Equity" -> [return |-> 18, risk |-> 25]
          [] a = "Debt Funds" -> [return |-> 7, risk |-> 3]
          [] a = "Gold ETF" -> [return |-> 9, risk |-> 12]
          [] a = "International Funds" -> [return |-> 10, risk |-> 18]]

asset_details ==
    [a \in AssetClasses |->
        CASE a = "Large Cap Equity" -> [return |-> 12, risk |-> 15]
          [] a = "Mid Cap Equity" -> [return |-> 15, risk |-> 20]
          [] a = "Small Cap Equity" -> [return |-> 18, risk |-> 25]
          [] a = "Debt Funds" -> [return |-> 7, risk |-> 3]
          [] a = "Gold ETF" -> [return |-> 8, risk |-> 12]
          [] a = "International Funds" -> [return |-> 10, risk |-> 18]]

\* asset_details.get(asset_class, {}).get('return', 8.0)
DetailReturn(a) == IF a \in DOMAIN asset_details THEN asset_details[a].return ELSE 8
\* asset_details.get(asset_class, {}).get('risk', 10.0)
DetailRisk(a) == IF a \in DOMAIN asset_details THEN asset_details[a].risk ELSE 10

(***************************************************************************)
(* AIRebalancer._analyze_market_conditions                                 *)
(***************************************************************************)
\* what yf.download('^NSEI') and the statistics computed from it can be:
\*   raise     the fetch raises
\*   empty     an empty frame;  short: fewer than 20 rows
\*   sparse    20 rows or more but at most 5 usable returns
\*   ok        statistics computed from the series
\*   ok_raise  volatility and momentum computed, then the trend step raises
LiveVols == {1200, 2500, 2501, 4200}
LiveMoms == {-1800, -301, -300, -201, 0, 200, 201, 300, 301, 1800}
LiveMAs == {"above", "below"}
NiftyOutcomes ==
    [kind : {"raise", "empty", "short", "sparse"}, vol : {0}, mom : {0}, ma : {"above"}]
      \cup [kind : {"ok"}, vol : LiveVols, mom : LiveMoms, ma : LiveMAs]
      \cup [kind : {"ok_raise"}, vol : {4200}, mom : {1800}, ma : {"above"}]

\* what yf.download('SPY') and np.corrcoef can be (nan: corrcoef is NaN)
SpyOutcomes ==
    [kind : {"raise", "nan"}, corr : {0}] \cup [kind : {"ok"}, corr : {-800, 300}]

Clamp(lo, hi, x) == Max(lo, Min(hi, x))

\* variant: the momentum tests come before the volatility test
ConditionMomentumFirst(volatility, momentum, trend) ==
    IF momentum > 300 /\ trend = "bullish" THEN "bull_market"
    ELSE IF momentum < -300 /\ trend = "bearish" THEN "bear_market"
    ELSE IF volatility > 2500 THEN "volatile_market"
    ELSE "stable_market"

\* lines 132-139: the regime, first match wins
Condition(volatility, momentum, trend) ==
    IF volatility > 2500 THEN "volatile_market"
    ELSE IF momentum > 300 /\ trend = "bullish" THEN "bull_market"
    ELSE IF momentum < -300 /\ trend = "bearish" THEN "bear_market"
    ELSE "stable_market"

\* variant: a trend adds nothing to the confidence
ConfidenceNoTrendBonus(momentum, trend) == Min(9500, 7000 + Abs(momentum) * 5)

\* variant: the sum is returned without the cap of 0.95
ConfidenceUncapped(momentum, trend) ==
    7000 + Abs(momentum) * 5 + (IF trend # "sideways" THEN 1000 ELSE 0)

\* line 142
Confidence(momentum, trend) ==
    Min(9500, 7000 + Abs(momentum) * 5 + (IF trend # "sideways" THEN 1000 ELSE 0))

\* lines 51-55: the defaults kept when the live branch is not taken
DefaultStats ==
    [volatility |-> 1800, momentum |-> 100, trend |-> "sideways",
     correlation |-> 500, data_source |-> "simulated"]

\* lines 61-98: the live branch
LiveStats(nifty, spy) ==
    [volatility |-> nifty.vol,
     momentum |-> nifty.mom,
     trend |-> IF nifty.ma = "above" /\ nifty.mom > 200 THEN "bullish"
               ELSE IF nifty.ma = "below" /\ nifty.mom < -200 THEN "bearish"
               ELSE "sideways",
     correlation |-> IF spy.kind = "ok" THEN spy.corr ELSE 500,
     data_source |-> "live"]

\* variant: the draws of the except branch are used unclamped
FallbackStatsUnclamped(s) ==
    LET volatility == Normal(1800, 300, s)
        momentum == Normal(50, 300, RngNext(s))
    IN [volatility |-> volatility,
        momentum |-> momentum,
        trend |-> IF momentum > 300 THEN "bullish"
                  ELSE IF momentum < -300 THEN "bearish"
                  ELSE "sideways",
        correlation |-> Uniform(400, 700, RngNext(RngNext(s))),
        data_source |-> "simulated"]

\* lines 100-122: the except branch, s the generator state after np.random.seed
FallbackStats(s) ==
    LET volatility == Clamp(1000, 3500, Normal(1800, 300, s))
        momentum == Clamp(-1500, 1500, Normal(50, 300, RngNext(s)))
    IN [volatility |-> volatility,
        momentum |-> momentum,
        trend |-> IF momentum > 300 THEN "bullish"
                  ELSE IF momentum < -300 THEN "bearish"
                  ELSE "sideways",
        correlation |-> Uniform(400, 700, RngNext(RngNext(s))),
        data_source |-> "simulated"]

\* does the call end in the except branch
TakesFallback(nifty) == nifty.kind \in {"raise", "ok_raise"}

\* variant: the 20-row check is missing, a short frame takes the live branch
MarketStatsNoLengthCheck(nifty, spy, now) ==
    IF TakesFallback(nifty) THEN FallbackStats(Seed(now % 100))
    ELSE IF nifty.kind \in {"ok", "short"} THEN LiveStats(nifty, spy)
    ELSE DefaultStats

\* variant: the except branch draws from the global generator as it stands,
\* without reseeding it
MarketStatsNotReseeded(nifty, spy, now) ==
    IF TakesFallback(nifty) THEN FallbackStats(rng)
    ELSE IF nifty.kind = "ok" THEN LiveStats(nifty, spy)
    ELSE DefaultStats

\* lines 57-122: the indicator snapshot
MarketStats(nifty, spy, now) ==
    IF TakesFallback(nifty) THEN FallbackStats(Seed(now % 100))
    ELSE IF nifty.kind = "ok" THEN LiveStats(nifty, spy)
    ELSE DefaultStats

\* the returned dict
AnalyzeMarketConditions(nifty, spy, now) ==
    LET st == MarketStats(nifty, spy, now)
    IN [condition |-> Condition(st.volatility, st.momentum, st.trend),
        data |-> [volatility |-> st.volatility, momentum |-> st.momentum,
                  trend |-> st.trend, correlation |-> Abs(st.correlation)],
        confidence |-> Confidence(st.momentum, st.trend),
        data_source |-> st.data_source]

\* the global generator after the call: reseeded and drawn three times in
\* the except branch, untouched otherwise
MarketRng(nifty, now, s) ==
    IF TakesFallback(nifty) THEN RngAdvance(Seed(now % 100), 3) ELSE s

(***************************************************************************)
(* AIRebalancer._analyze_allocation_drift                                  *)
(***************************************************************************)
\* expected_daily_return = return / 365 / 100, in basis points
DailyMean(a) == (DetailReturn(a) * 100) \div 365
\* expected_daily_volatility = risk / sqrt(365) / 100, in basis points
DailyVol(a) == (DetailRisk(a) * 100 * 1000) \div 19105

\* np.prod(1 + np.random.normal(mean, vol, days)) drawn from state s
RECURSIVE GrowthFactor(_, _, _, _)
GrowthFactor(mean, vol, days, s) ==
    IF days = 0 THEN Scale
    ELSE ((Scale + Normal(mean, vol, s))
            * GrowthFactor(mean, vol, days - 1, RngNext(s))) \div Scale

\* line 177: the state the generator is seeded to for one holding
HoldingSeed(salt, holding, s) == Seed(HashMod(salt, holding.fund_name))

\* lines 177-179: cumulative_return of one holding, in basis points;
\* s is the state of the global generator when the holding is reached
CumulativeReturn(salt, holding, days, s) ==
    GrowthFactor(DailyMean(holding.asset_class), DailyVol(holding.asset_class),
                 days, HoldingSeed(salt, holding, s)) - Scale

\* variant: the holding is revalued from the portfolio's current_value
OriginalAmountFromCurrent(p, holding) ==
    (holding.allocation_pct * p.current_value) \div 100

\* line 164: the amount the holding's current value is computed from
OriginalAmount(p, holding) == holding.amount

\* line 181: current_value of one holding
HoldingValue(p, holding, cumulative_return) ==
    (OriginalAmount(p, holding) * (Scale + cumulative_return)) \div Scale

\* the generator after one holding: seeded, then one draw per day
HoldingRng(salt, holding, days, s) ==
    RngAdvance(HoldingSeed(salt, holding, s), days)

\* lines 162-187: the loop over the holdings from holding i on; s is the
\* state of the global generator when holding i is reached.  Returns the
\* per-holding cumulative returns and current values and the generator state
\* after the loop.
RECURSIVE HoldingsLoop(_, _, _, _, _, _)
HoldingsLoop(p, salt, days, i, s, acc) ==
    IF i > Len(p.holdings) THEN [cumulative |-> acc.cumulative, value |-> acc.value, rng |-> s]
    ELSE LET h == p.holdings[i]
             cumulative_return == CumulativeReturn(salt, h, days, s)
         IN HoldingsLoop(p, salt, days, i + 1, HoldingRng(salt, h, days, s),
                [cumulative |-> Append(acc.cumulative, cumulative_return),
                 value |-> Append(acc.value, HoldingValue(p, h, cumulative_return))])

\* variant: the drift is taken as target minus current
DriftReportReversed(p, value, total) ==
    [a \in DOMAIN p.allocation |->
        LET classValue ==
              SumOver(value, {i \in 1..Len(value) : p.holdings[i].asset_class = a})
        IN [target_percentage |-> p.allocation[a],
            current_num |-> 100 * classValue,
            drift_num |-> p.allocation[a] * total - 100 * classValue,
            drift_amount |-> (p.allocation[a] * total - 100 * classValue) \div 100]]

\* lines 189-204: the report.  Percentages are kept exact as numerators
\* over the common denominator total_current_value:
\*   current_percentage = current_num / total
\*   drift_percentage   = drift_num / total
\* drift_amount = drift_pct / 100 * total_current_value is in rupees,
\* rounded down.
DriftReport(p, value, total) ==
    [a \in DOMAIN p.allocation |->
        LET classValue ==
              SumOver(value, {i \in 1..Len(value) : p.holdings[i].asset_class = a})
        IN [target_percentage |-> p.allocation[a],
            current_num |-> 100 * classValue,
            drift_num |-> 100 * classValue - p.allocation[a] * total,
            drift_amount |-> (100 * classValue - p.allocation[a] * total) \div 100]]

\* variant: the percentages are taken against the value stored in the
\* portfolio instead of the sum of the revalued holdings
AnalyzeAllocationDriftStoredValue(p, salt, days, s0) ==
    LET loop == HoldingsLoop(p, salt, days, 1, s0, [cumulative |-> <<>>, value |-> <<>>])
    IN [cumulative |-> loop.cumulative,
        value |-> loop.value,
        total_current_value |-> SumSeq(loop.value),
        drift_analysis |-> DriftReport(p, loop.value, p.current_value),
        rng |-> loop.rng]

\* lines 151-209: the whole analysis, s0 the generator state at the call
AnalyzeAllocationDrift(p, salt, days, s0) ==
    LET loop == HoldingsLoop(p, salt, days, 1, s0, [cumulative |-> <<>>, value |-> <<>>])
        total == SumSeq(loop.value)
    IN [cumulative |-> loop.cumulative,
        value |-> loop.value,
        total_current_value |-> total,
        drift_analysis |-> DriftReport(p, loop.value, total),
        rng |-> loop.rng]

\* variant: the analysis also writes the current values back into the holdings
UpdatePortfolioRevalued(p, r) ==
    [p EXCEPT !.current_value = r.total_current_value,
              !.holdings = [i \in 1..Len(p.holdings) |->
                              [p.holdings[i] EXCEPT !.amount = r.value[i]]]]

\* line 207: portfolio['current_value'] = total_current_value
UpdatePortfolio(p, r) == [p EXCEPT !.current_value = r.total_current_value]

\* variant: a drift of exactly the threshold counts as exceeding it
ExceedsThresholdInclusive(d, total) == Abs(d.drift_num) >= rebalancing_threshold * total

\* abs(drift_percentage) > rebalancing_threshold
ExceedsThreshold(d, total) == Abs(d.drift_num) > rebalancing_threshold * total

(***************************************************************************)
(* AIRebalancer._generate_recommendation, _get_market_based_recommendations*)
(* and get_rebalancing_recommendations                                     *)
(***************************************************************************)
GenerateRecommendation(a, d, total, market) ==
    [asset |-> a,
     action |-> IF d.drift_num > rebalancing_threshold * total THEN "SELL"
                ELSE IF d.drift_num < -(rebalancing_threshold * total) THEN "BUY"
                ELSE "HOLD",
     drift_num |-> d.drift_num,
     priority |-> IF Abs(d.drift_num) > 10 * total THEN "High" ELSE "Medium",
     market_factor |-> market.condition]

\* variant: the bull and bear branches do not look at the confidence
GetMarketBasedRecommendationsAnyConfidence(market) ==
    IF market.condition = "bull_market"
    THEN <<[asset |-> "Equity Allocation", action |-> "INCREASE", quantity |-> 5,
            priority |-> "Medium", market_factor |-> market.condition]>>
    ELSE IF market.condition = "bear_market"
    THEN <<[asset |-> "Debt Allocation", action |-> "INCREASE", quantity |-> 10,
            priority |-> "High", market_factor |-> market.condition]>>
    ELSE IF market.condition = "volatile_market"
    THEN <<[asset |-> "Gold ETF", action |-> "INCREASE", quantity |-> 3,
            priority |-> "Medium", market_factor |-> market.condition]>>
    ELSE <<>>

\* variant: the last branch is a bare else, so every other regime gets the
\* gold recommendation
GetMarketBasedRecommendationsElse(market) ==
    IF market.condition = "bull_market" /\ market.confidence > 8000
    THEN <<[asset |-> "Equity Allocation", action |-> "INCREASE", quantity |-> 5,
            priority |-> "Medium", market_factor |-> market.condition]>>
    ELSE IF market.condition = "bear_market" /\ market.confidence > 8000
    THEN <<[asset |-> "Debt Allocation", action |-> "INCREASE", quantity |-> 10,
            priority |-> "High", market_factor |-> market.condition]>>
    ELSE <<[asset |-> "Gold ETF", action |-> "INCREASE", quantity |-> 3,
            priority |-> "Medium", market_factor |-> market.condition]>>

GetMarketBasedRecommendations(market) ==
    IF market.condition = "bull_market" /\ market.confidence > 8000
    THEN <<[asset |-> "Equity Allocation", action |-> "INCREASE", quantity |-> 5,
            priority |-> "Medium", market_factor |-> market.condition]>>
    ELSE IF market.condition = "bear_market" /\ market.confidence > 8000
    THEN <<[asset |-> "Debt Allocation", action |-> "INCREASE", quantity |-> 10,
            priority |-> "High", market_factor |-> market.condition]>>
    ELSE IF market.condition = "volatile_market"
    THEN <<[asset |-> "Gold ETF", action |-> "INCREASE", quantity |-> 3,
            priority |-> "Medium", market_factor |-> market.condition]>>
    ELSE <<>>

\* lines 33-38: one recommendation per drifted class, in dict order
RECURSIVE DriftRecommendations(_, _, _, _)
DriftRecommendations(drift, total, market, i) ==
    IF i > Len(AssetOrder) THEN <<>>
    ELSE LET a == AssetOrder[i]
             rest == DriftRecommendations(drift, total, market, i + 1)
         IN IF ExceedsThreshold(drift[a], total)
            THEN <<GenerateRecommendation(a, drift[a], total, market)>> \o rest
            ELSE rest

\* lines 33-46
Recommendations(drift, total, market) ==
    DriftRecommendations(drift, total, market, 1)
        \o GetMarketBasedRecommendations(market)

(***************************************************************************)
(* AIRebalancer.calculate_optimal_allocation (percentages in tenths)       *)
(***************************************************************************)
RiskTolerances == RiskTiers \cup {"Unknown"}
MarketOutlooks == {"bullish", "bearish", "neutral", "unclear"}

\* 'Equity' in asset_class, 'Debt' in asset_class, 'Gold' in asset_class
HasEquity(a) == a \in {"Large Cap Equity", "Mid Cap Equity", "Small Cap Equity"}
HasDebt(a) == a = "Debt Funds"
HasGold(a) == a = "Gold ETF"

\* risk_factors.get(risk_tolerance, 1.0), in tenths
RiskFactor(risk_tolerance) ==
    CASE risk_tolerance = "Low" -> 8
      [] risk_tolerance = "Medium" -> 10
      [] risk_tolerance = "High" -> 12
      [] OTHER -> 10

\* variant: an unrecognised outlook is treated as bearish
OutlookAdjustmentsDefaultBearish(market_outlook) ==
    CASE market_outlook = "bullish" -> [equity |-> 5, debt |-> -3, gold |-> -2]
      [] market_outlook = "neutral" -> [equity |-> 0, debt |-> 0, gold |-> 0]
      [] OTHER -> [equity |-> -8, debt |-> 5, gold |-> 3]

\* outlook_adjustments.get(market_outlook, outlook_adjustments['neutral'])
OutlookAdjustments(market_outlook) ==
    CASE market_outlook = "bullish" -> [equity |-> 5, debt |-> -3, gold |-> -2]
      [] market_outlook = "bearish" -> [equity |-> -8, debt |-> 5, gold |-> 3]
      [] OTHER -> [equity |-> 0, debt |-> 0, gold |-> 0]

\* variant: the tier factor multiplies the debt and gold adjustments too
AdjustmentScaledAll(a, risk_tolerance, market_outlook) ==
    LET adj == OutlookAdjustments(market_outlook)
    IN IF HasEquity(a) THEN adj.equity * RiskFactor(risk_tolerance)
       ELSE IF HasDebt(a) THEN adj.debt * RiskFactor(risk_tolerance)
       ELSE IF HasGold(a) THEN adj.gold * RiskFactor(risk_tolerance)
       ELSE 0

\* lines 318-325, in tenths of a percent
Adjustment(a, risk_tolerance, market_outlook) ==
    LET adj == OutlookAdjustments(market_outlook)
    IN IF HasEquity(a) THEN adj.equity * RiskFactor(risk_tolerance)
       ELSE IF HasDebt(a) THEN adj.debt * 10
       ELSE IF HasGold(a) THEN adj.gold * 10
       ELSE 0

\* line 327: max(0, min(100, base_pct + adjustment)), in tenths
Adjusted(base_allocation, risk_tolerance, market_outlook) ==
    [a \in DOMAIN base_allocation |->
        Max(0, Min(1000, base_allocation[a] * 10
                           + Adjustment(a, risk_tolerance, market_outlook)))]

\* variant: the clamped values are returned without renormalising
NormalizeSkipped(optimal) == [num |-> optimal, den |-> 10, raised |-> "none"]

\* lines 330-333: a value is num[a] / den percent
\* (the division raises ZeroDivisionError when total is 0)
Normalize(optimal) ==
    LET total == SumOver(optimal, DOMAIN optimal)
    IN IF total # 1000
       THEN [num |-> [a \in DOMAIN optimal |-> optimal[a] * 100], den |-> total,
             raised |-> IF total = 0 THEN "ZeroDivisionError" ELSE "none"]
       ELSE [num |-> optimal, den |-> 10, raised |-> "none"]

CalculateOptimalAllocation(p, risk_tolerance, market_outlook) ==
    Normalize(Adjusted(p.allocation, risk_tolerance, market_outlook))

(***************************************************************************)
(* AIRebalancer.get_rebalancing_schedule                                   *)
(***************************************************************************)
Frequencies == {"monthly", "quarterly", "semi-annual", "annual", "weekly"}

\* frequency_days.get(frequency, 90)
FrequencyDays(frequency) ==
    CASE frequency = "monthly" -> 30
      [] frequency = "quarterly" -> 90
      [] frequency = "semi-annual" -> 180
      [] frequency = "annual" -> 365
      [] OTHER -> 90

\* lines 364-366: int(base_trades * (1 + portfolio_risk / 15.0 * 0.5))
EstimatedTrades(p) ==
    (Max(2, Len(p.holdings) \div 2) * (3000 + p.portfolio_risk)) \div 3000

\* lines 369-373, in rupees
EstimatedCost(p) ==
    LET equity_allocation == p.allocation["Large Cap Equity"]
                               + p.allocation["Mid Cap Equity"]
                               + p.allocation["Small Cap Equity"]
        rate_ppm == 1000 + equity_allocation * 5
    IN (((p.current_value * rate_ppm) \div 1000) * EstimatedTrades(p))
          \div (Len(p.holdings) * 1000)

GetRebalancingSchedule(p, frequency, now) ==
    [i \in 1..4 |->
        [day |-> (now \div 24) + FrequencyDays(frequency) * i,
         estimated_trades |-> EstimatedTrades(p),
         estimated_cost |-> EstimatedCost(p)]]

(***************************************************************************)
(* AIRebalancer.simulate_rebalancing_impact, _get_correlation_matrix and   *)
(* _calculate_portfolio_risk.                                              *)
(* An allocation mapping is [num |-> f, den |-> d]: asset a is at          *)
(* f[a] / d percent.  Percentages are used in tenths of a percent, returns *)
(* and risks in thousandths of a percent, correlations in hundredths,      *)
(* costs in 1/10000 rupee, Sharpe ratios in thousandths.                   *)
(***************************************************************************)
\* 'International' in asset
HasInternational(a) == a = "International Funds"

\* (a * b) / c rounded down, without forming a * b
MulDiv(a, b, c) == (a \div c) * b + ((a % c) * b) \div c

\* a mapping of whole percentages as an allocation mapping
WholePercent(al) == [num |-> al, den |-> 1]

\* allocation.get(asset, 0), in tenths of a percent
Tenths(allocation, a) ==
    IF a \in DOMAIN allocation.num
    THEN (allocation.num[a] * 10) \div allocation.den
    ELSE 0

\* line 389: {asset: info['current_percentage'] for asset, info in drift_analysis.items()}
CurrentAllocation(r) ==
    [num |-> [a \in DOMAIN r.drift_analysis |-> r.drift_analysis[a].current_num],
     den |-> r.total_current_value]

\* variant: the value the portfolio held before the analysis
PortfolioValueBefore(p, r) == p.current_value

\* line 391: portfolio['current_value'], read after the analysis of line 388
PortfolioValue(p, r) == UpdatePortfolio(p, r).current_value

\* lines 403-410, in 1/10000
CostRate(a) ==
    IF HasEquity(a) THEN 10
    ELSE IF HasDebt(a) THEN 5
    ELSE IF HasInternational(a) THEN 15
    ELSE 10

\* lines 400-401: change_amount of one asset, in rupees
ChangeAmount(proposed, current, a, portfolio_value) ==
    (Abs(Tenths(proposed, a) - Tenths(current, a)) * portfolio_value) \div 1000

\* the cost formula summed over a set of asset classes
CostOver(keys, proposed, current, portfolio_value) ==
    SumOver([a \in keys |->
                ChangeAmount(proposed, current, a, portfolio_value) * CostRate(a)],
            keys)

\* lines 398-412: the loop runs over the keys of proposed_allocation
TransactionCost(proposed, current, portfolio_value) ==
    CostOver(DOMAIN proposed.num, proposed, current, portfolio_value)

\* lines 418-421 and 428-431: sum((allocation.get(asset, 0) / 100) * return)
AllocationReturn(allocation) ==
    SumOver([a \in DOMAIN allocation.num |-> Tenths(allocation, a) * DetailReturn(a)],
            DOMAIN allocation.num)

\* lines 456-468
correlation_matrix ==
    [a \in AssetClasses |->
        CASE a = "Large Cap Equity" ->
               [b \in AssetClasses |->
                  CASE b = "Large Cap Equity" -> 100 [] b = "Mid Cap Equity" -> 85
                    [] b = "Small Cap Equity" -> 75 [] b = "Debt Funds" -> 10
                    [] b = "Gold ETF" -> 20 [] b = "International Funds" -> 70]
          [] a = "Mid Cap Equity" ->
               [b \in AssetClasses |->
                  CASE b = "Large Cap Equity" -> 85 [] b = "Mid Cap Equity" -> 100
                    [] b = "Small Cap Equity" -> 90 [] b = "Debt Funds" -> 5
                    [] b = "Gold ETF" -> 15 [] b = "International Funds" -> 60]
          [] a = "Small Cap Equity" ->
               [b \in AssetClasses |->
                  CASE b = "Large Cap Equity" -> 75 [] b = "Mid Cap Equity" -> 90
                    [] b = "Small Cap Equity" -> 100 [] b = "Debt Funds" -> 0
                    [] b = "Gold ETF" -> 10 [] b = "International Funds" -> 50]
          [] a = "Debt Funds" ->
               [b \in AssetClasses |->
                  CASE b = "Large Cap Equity" -> 10 [] b = "Mid Cap Equity" -> 5
                    [] b = "Small Cap Equity" -> 0 [] b = "Debt Funds" -> 100
                    [] b = "Gold ETF" -> 30 [] b = "International Funds" -> 20]
          [] a = "Gold ETF" ->
               [b \in AssetClasses |->
                  CASE b = "Large Cap Equity" -> 20 [] b = "Mid Cap Equity" -> 15
                    [] b = "Small Cap Equity" -> 10 [] b = "Debt Funds" -> 30
                    [] b = "Gold ETF" -> 100 [] b = "International Funds" -> 25]
          [] a = "International Funds" ->
               [b \in AssetClasses |->
                  CASE b = "Large Cap Equity" -> 70 [] b = "Mid Cap Equity" -> 60
                    [] b = "Small Cap Equity" -> 50 [] b = "Debt Funds" -> 20
                    [] b = "Gold ETF" -> 25 [] b = "International Funds" -> 100]]

\* lines 482-485: correlation_matrix.loc[asset1, asset2], or the default 0.5
Correlation(asset1, asset2) ==
    IF asset1 \in DOMAIN correlation_matrix /\ asset2 \in DOMAIN correlation_matrix
    THEN correlation_matrix[asset1][asset2]
    ELSE 50

\* line 476: a pair enters the sum only if both assets are in asset_details
PairCounted(asset1, asset2) ==
    asset1 \in DOMAIN asset_details /\ asset2 \in DOMAIN asset_details

\* lines 477-487: weight1 * weight2 * risk1 * risk2 * correlation of one pair
PairTerm(allocation, asset1, asset2) ==
    MulDiv((Tenths(allocation, asset1) * asset_details[asset1].risk)
             * (Tenths(allocation, asset2) * asset_details[asset2].risk),
           Correlation(asset1, asset2), 100)

\* variant: only the diagonal of the matrix enters the sum
PortfolioVarianceDiagonal(allocation) ==
    LET assets == DOMAIN allocation.num
    IN SumOver([asset1 \in assets |->
                  IF PairCounted(asset1, asset1)
                  THEN PairTerm(allocation, asset1, asset1) ELSE 0],
               assets)

\* lines 472-487: portfolio_variance, summed by the two nested loops
PortfolioVariance(allocation) ==
    LET assets == DOMAIN allocation.num
    IN SumOver([asset1 \in assets |->
                  SumOver([asset2 \in assets |->
                             IF PairCounted(asset1, asset2)
                             THEN PairTerm(allocation, asset1, asset2) ELSE 0],
                          assets)],
               assets)

\* variant: the risk is the square root of the diagonal terms only
CalculatePortfolioRiskDiagonal(allocation) == Isqrt(PortfolioVarianceDiagonal(allocation))

\* line 489: np.sqrt(portfolio_variance) * 100
CalculatePortfolioRisk(allocation) == Isqrt(PortfolioVariance(allocation))

\* 6.0
risk_free_rate == 6 * 1000

\* variant: the division is not guarded
SharpeRatioUnguarded(return, risk) ==
    IF risk = 0 THEN [value |-> 0, raised |-> "ZeroDivisionError"]
    ELSE [value |-> ((return - risk_free_rate) * 1000) \div risk, raised |-> "none"]

\* lines 437-438: (return - risk_free_rate) / risk if risk > 0 else 0
SharpeRatio(return, risk) ==
    IF risk > 0
    THEN [value |-> ((return - risk_free_rate) * 1000) \div risk, raised |-> "none"]
    ELSE [value |-> 0, raised |-> "none"]

\* lines 389-451: the returned metrics, r the drift analysis of line 388
SimulationMetrics(p, r, proposed) ==
    LET current == CurrentAllocation(r)
        portfolio_value == PortfolioValue(p, r)
        new_return == AllocationReturn(proposed)
        new_variance == PortfolioVariance(proposed)
        new_risk == Isqrt(new_variance)
        current_return == AllocationReturn(current)
        current_risk == CalculatePortfolioRisk(current)
    IN [portfolio_value |-> portfolio_value,
        transaction_cost |-> TransactionCost(proposed, current, portfolio_value),
        current_return |-> current_return,
        new_return |-> new_return,
        current_risk |-> current_risk,
        new_variance |-> new_variance,
        new_risk |-> new_risk,
        current_sharpe |-> SharpeRatio(current_return, current_risk),
        new_sharpe |-> SharpeRatio(new_return, new_risk)]

(***************************************************************************)
(* The state machine.                                                      *)
(*   hashSalt   the process's string-hash salt                             *)
(*   rng        state of the global numpy generator                        *)
(*   hour       the clock                                                  *)
(*   portfolio  the session's portfolio dict (NoPortfolio before creation) *)
(*   created    the portfolio as create_portfolio returned it              *)
(*   result     what the last call returned                                *)
(*   seen       the latest drift analysis of this portfolio, with its days *)
(*   threads    the drift analyses in progress in concurrent threads       *)
(***************************************************************************)
Threads == {1, 2}

\* one thread's frame of _analyze_allocation_drift
IdleThread ==
    [pc |-> "idle", i |-> 0, cumulative |-> <<>>, value |-> <<>>,
     drift_analysis |-> <<>>, total_current_value |-> 0]

\* lock: -1 the caller uses no lock, 0 the portfolio's lock is free,
\* t it is held by thread t
NoThreads ==
    [lock |-> -1, last |-> 0, switches |-> 0, run |-> [t \in Threads |-> IdleThread]]

ClientNames == {"Asha"}

HasPortfolio == portfolio # NoPortfolio

Init ==
    /\ hashSalt \in 0..(MaxSalt - 1)
    /\ rng \in RngStates
    /\ hour = 0
    /\ portfolio = NoPortfolio
    /\ created = NoPortfolio
    /\ result = [op |-> "idle"]
    /\ seen = <<>>
    /\ threads = NoThreads

\* time passes between calls; the last return value is no longer current
Tick ==
    /\ \E h \in ClockHours : h > hour /\ hour' = h
    /\ result' = [op |-> "idle"]
    /\ UNCHANGED <<threads, hashSalt, rng, portfolio, created, seen>>

\* create_portfolio with an unrecognised tier: the lookup at line 34 raises
\* KeyError on the first asset class
CreateRejected(name, risk_appetite, investment_amount) ==
    /\ risk_appetite \notin RiskTiers
    /\ result' = [op |-> "create", risk_appetite |-> risk_appetite,
                  raised |-> "KeyError", returned |-> FALSE]
    /\ UNCHANGED <<threads, hashSalt, rng, hour, portfolio, created, seen>>

\* create_portfolio with a catalog tier; the caller stores the portfolio in
\* the session, replacing an earlier one
CreateAccepted(name, risk_appetite, investment_amount) ==
    /\ risk_appetite \in RiskTiers
    /\ \E p \in {BuildPortfolio(name, risk_appetite, investment_amount, rng, hour)} :
          /\ portfolio' = p
          /\ created' = p
          /\ rng' = BuildHoldings(p.allocation, investment_amount, 1, <<>>, rng)[2]
          /\ result' = [op |-> "create", risk_appetite |-> risk_appetite,
                        investment_amount |-> investment_amount,
                        raised |-> "none", returned |-> TRUE]
    /\ seen' = <<>>
    /\ UNCHANGED <<threads, hashSalt, hour>>

\* variant: an unrecognised tier is looked up with a default of 0 instead of
\* raising, and a portfolio is returned
CreatePortfolioLenient(name, risk_appetite, investment_amount) ==
    \/ CreateAccepted(name, risk_appetite, investment_amount)
    \/ /\ risk_appetite \notin RiskTiers
       /\ portfolio' = [NoPortfolio EXCEPT !.client_id = name,
                                           !.current_value = investment_amount,
                                           !.risk_score = CalculateRiskScore(risk_appetite),
                                           !.created_date = hour]
       /\ created' = portfolio'
       /\ result' = [op |-> "create", risk_appetite |-> risk_appetite,
                     investment_amount |-> investment_amount,
                     raised |-> "none", returned |-> TRUE]
       /\ seen' = <<>>
       /\ UNCHANGED <<threads, hashSalt, rng, hour>>

CreatePortfolio(name, risk_appetite, investment_amount) ==
    \/ CreateRejected(name, risk_appetite, investment_amount)
    \/ CreateAccepted(name, risk_appetite, investment_amount)

\* _analyze_market_conditions called on its own
AnalyzeMarket(nifty, spy) ==
    /\ result' = [op |-> "market", nifty |-> nifty, spy |-> spy,
                  market |-> AnalyzeMarketConditions(nifty, spy, hour)]
    /\ rng' = MarketRng(nifty, hour, rng)
    /\ UNCHANGED <<threads, hashSalt, hour, portfolio, created, seen>>

\* the record kept of an analysis
Seen(days, r) ==
    <<[days |-> days, cumulative |-> r.cumulative,
       drift_analysis |-> r.drift_analysis,
       current_value |-> r.total_current_value]>>

\* _analyze_allocation_drift called on its own
AnalyzeDrift ==
    /\ HasPortfolio
    /\ \E days \in {DaysSinceCreation(portfolio, hour)} :
       \E r \in {AnalyzeAllocationDrift(portfolio, hashSalt, days, rng)} :
          /\ portfolio' = UpdatePortfolio(portfolio, r)
          /\ rng' = r.rng
          /\ result' = [op |-> "drift", days |-> days, prior |-> seen,
                        cumulative |-> r.cumulative, value |-> r.value,
                        drift_analysis |-> r.drift_analysis,
                        total_current_value |-> r.total_current_value]
          /\ seen' = Seen(days, r)
    /\ UNCHANGED <<threads, hashSalt, hour, created>>

\* get_rebalancing_recommendations
GetRecommendations(nifty, spy) ==
    /\ HasPortfolio
    /\ \E market \in {AnalyzeMarketConditions(nifty, spy, hour)} :
       \E days \in {DaysSinceCreation(portfolio, hour)} :
       \E r \in {AnalyzeAllocationDrift(portfolio, hashSalt, days,
                                        MarketRng(nifty, hour, rng))} :
          /\ portfolio' = UpdatePortfolio(portfolio, r)
          /\ rng' = r.rng
          /\ result' = [op |-> "recommend", days |-> days, prior |-> seen,
                        nifty |-> nifty, spy |-> spy, market |-> market,
                        cumulative |-> r.cumulative, value |-> r.value,
                        drift_analysis |-> r.drift_analysis,
                        total_current_value |-> r.total_current_value,
                        recommendations |->
                            Recommendations(r.drift_analysis,
                                            r.total_current_value, market)]
          /\ seen' = Seen(days, r)
    /\ UNCHANGED <<threads, hashSalt, hour, created>>

\* calculate_optimal_allocation
CalculateOptimal(risk_tolerance, market_outlook) ==
    /\ HasPortfolio
    /\ result' = [op |-> "optimal", risk_tolerance |-> risk_tolerance,
                  market_outlook |-> market_outlook,
                  optimal_allocation |->
                      CalculateOptimalAllocation(portfolio, risk_tolerance,
                                                 market_outlook)]
    /\ UNCHANGED <<threads, hashSalt, rng, hour, portfolio, created, seen>>

\* simulate_rebalancing_impact called with one of the given proposed
\* allocations: the drift analysis of line 388 runs first
SimulateWith(proposals) ==
    /\ HasPortfolio
    /\ \E days \in {DaysSinceCreation(portfolio, hour)} :
       \E r \in {AnalyzeAllocationDrift(portfolio, hashSalt, days, rng)} :
       \E proposed \in proposals :
          /\ portfolio' = UpdatePortfolio(portfolio, r)
          /\ rng' = r.rng
          /\ result' = [op |-> "simulate", days |-> days, prior |-> seen,
                        proposed_allocation |-> proposed,
                        cumulative |-> r.cumulative, value |-> r.value,
                        drift_analysis |-> r.drift_analysis,
                        total_current_value |-> r.total_current_value,
                        value_before |-> portfolio.current_value,
                        metrics |-> SimulationMetrics(portfolio, r, proposed)]
          /\ seen' = Seen(days, r)
    /\ UNCHANGED <<threads, hashSalt, hour, created>>

\* simulate_rebalancing_impact on the allocation calculate_optimal_allocation
\* proposes (app.py, ai_rebalancing)
SimulateImpact(risk_tolerance, market_outlook) ==
    SimulateWith({CalculateOptimalAllocation(portfolio, risk_tolerance,
                                             market_outlook)})

\* get_rebalancing_schedule
Schedule(frequency) ==
    /\ HasPortfolio
    /\ result' = [op |-> "schedule", frequency |-> frequency,
                  schedule |-> GetRebalancingSchedule(portfolio, frequency, hour)]
    /\ UNCHANGED <<threads, hashSalt, rng, hour, portfolio, created, seen>>

\* the index outcomes exercised together with a portfolio: the fetch raises
\* (the simulated regime then varies with the clock), returns nothing, or
\* returns a volatile live series
SessionNifty ==
    {n \in NiftyOutcomes :
        \/ n.kind \in {"raise", "empty"}
        \/ n.kind = "ok" /\ n.vol = 4200 /\ n.mom = 301 /\ n.ma = "above"}
SessionSpy == {y \in SpyOutcomes : y.kind = "ok" /\ y.corr < 0}
SessionProposals == {<<"Medium", "neutral">>, <<"High", "bearish">>}
SessionFrequencies == {"quarterly"}

Next ==
    \/ Tick
    \/ \E name \in ClientNames, ra \in RiskAppetites, amt \in InvestmentAmounts :
          CreatePortfolio(name, ra, amt)
    \/ \E nifty \in {n \in SessionNifty : n.kind # "ok"}, spy \in SessionSpy :
          AnalyzeMarket(nifty, spy)
    \/ AnalyzeDrift
    \/ \E nifty \in SessionNifty, spy \in SessionSpy : GetRecommendations(nifty, spy)
    \/ \E prop \in SessionProposals : CalculateOptimal(prop[1], prop[2])
    \/ \E prop \in SessionProposals : SimulateImpact(prop[1], prop[2])
    \/ \E f \in SessionFrequencies : Schedule(f)

Spec == Init /\ [][Next]_vars

(***************************************************************************)
(* The classifier on its own, over every index outcome.                    *)
(***************************************************************************)
NextMarket ==
    \/ Tick
    \/ \E nifty \in NiftyOutcomes, spy \in SpyOutcomes : AnalyzeMarket(nifty, spy)

SpecMarket == Init /\ [][NextMarket]_vars

(***************************************************************************)
(* calculate_optimal_allocation on its own, over portfolios whose target   *)
(* allocation is any mapping of the six classes summing to 100.            *)
(***************************************************************************)
AllocationSteps == {0, 2, 3, 5, 10, 30, 50, 100}

CustomAllocations ==
    {al \in [AssetClasses -> AllocationSteps] : SumOver(al, AssetClasses) = 100}
      \cup {TierAllocation(t) : t \in RiskTiers}

InitOptimal ==
    /\ hashSalt = 0
    /\ rng = 0
    /\ hour = 0
    /\ \E al \in CustomAllocations :
          portfolio = [NoPortfolio EXCEPT !.client_id = "custom", !.allocation = al,
                                          !.current_value = 100000]
    /\ created = portfolio
    /\ result = [op |-> "idle"]
    /\ seen = <<>>
    /\ threads = NoThreads

NextOptimal ==
    \E rt \in RiskTolerances, mo \in MarketOutlooks : CalculateOptimal(rt, mo)

SpecOptimal == InitOptimal /\ [][NextOptimal]_vars

(***************************************************************************)
(* simulate_rebalancing_impact called directly on a created portfolio,     *)
(* with proposed allocations built by the caller: mappings of the six       *)
(* classes summing to 100, mappings that leave classes out,                *)
(* mappings that name an asset class the catalog does not have, and the    *)
(* all-zero mapping.                                                       *)
(***************************************************************************)
UnknownAsset == "Crypto"

\* a half and two quarters placed on any classes, the same class included:
\* 100, 75/25, 50/50 and 50/25/25 splits
ValidProposals ==
    {WholePercent([a \in AssetClasses |->
                      (IF a = x THEN 50 ELSE 0) + (IF a = y THEN 25 ELSE 0)
                        + (IF a = z THEN 25 ELSE 0)]) :
        x \in AssetClasses, y \in AssetClasses, z \in AssetClasses}
      \cup {WholePercent(TierAllocation(t)) : t \in RiskTiers}

PartialProposals ==
    {WholePercent("Debt Funds" :> 100),
     WholePercent("Large Cap Equity" :> 60 @@ "Gold ETF" :> 40)}

UnknownProposals ==
    {WholePercent(UnknownAsset :> 100),
     WholePercent("Large Cap Equity" :> 50 @@ UnknownAsset :> 50),
     WholePercent("Debt Funds" :> 70 @@ "Gold ETF" :> 10 @@ UnknownAsset :> 20)}

ZeroProposals == {WholePercent([a \in AssetClasses |-> 0])}

ProposedAllocations ==
    ValidProposals \cup PartialProposals \cup UnknownProposals \cup ZeroProposals

\* a portfolio created at hour 0 and held by the caller
InitCreated ==
    /\ hashSalt \in 0..(MaxSalt - 1)
    /\ hour = 0
    /\ \E t \in RiskTiers :
          /\ portfolio = BuildPortfolio("Asha", t, 100000, Seed(0), 0)
          /\ rng = BuildHoldings(TierAllocation(t), 100000, 1, <<>>, Seed(0))[2]
    /\ created = portfolio
    /\ result = [op |-> "idle"]
    /\ seen = <<>>

InitSimulate == InitCreated /\ threads = NoThreads

NextSimulate == SimulateWith(ProposedAllocations)

SpecSimulate == InitSimulate /\ [][NextSimulate]_vars

(***************************************************************************)
(* Drift analysis and recommendations on a portfolio dict one of whose     *)
(* holdings cannot be analysed.  A fault says what is wrong with the       *)
(* holdings passed in:                                                     *)
(*   "no Amount key", "no Fund Name key"  no holding has the key, so the   *)
(*       DataFrame of line 158 lacks the column and the first row's lookup *)
(*       (line 164, line 177) raises KeyError;                             *)
(*   "unhashable Fund Name"  the name of holding index is a list: hash()   *)
(*       at line 177 raises TypeError;                                     *)
(*   "text Amount"  the amount of holding index is a string: the product   *)
(*       at line 181 raises TypeError.                                     *)
(* _analyze_allocation_drift and get_rebalancing_recommendations contain   *)
(* no try / except around the holdings loop.                               *)
(***************************************************************************)
ColumnFaults == {"no Amount key", "no Fund Name key"}
CellFaults == {"unhashable Fund Name", "text Amount"}

HoldingFaults(p) ==
    {[kind |-> k, index |-> 1] : k \in ColumnFaults}
      \cup {[kind |-> k, index |-> i] : k \in CellFaults, i \in 1..Len(p.holdings)}

\* the exception the faulty holding raises
RaisedBy(fault) == IF fault.kind \in ColumnFaults THEN "KeyError" ELSE "TypeError"

\* the generator when the exception is raised: the holdings before the
\* faulty one were seeded and drawn, the faulty one too if it fails only at
\* line 181
RngAtFault(p, fault, salt, days, s) ==
    LET last == IF fault.kind = "text Amount" THEN fault.index ELSE fault.index - 1
    IN IF last = 0 THEN s ELSE HoldingRng(salt, p.holdings[last], days, s)

\* _analyze_allocation_drift on the faulty holdings: the exception leaves the
\* loop and the function, line 207 is not reached
AnalyzeDriftFaulty(fault) ==
    /\ HasPortfolio
    /\ fault \in HoldingFaults(portfolio)
    /\ \E days \in {DaysSinceCreation(portfolio, hour)} :
          /\ rng' = RngAtFault(portfolio, fault, hashSalt, days, rng)
          /\ result' = [op |-> "drift", days |-> days, fault |-> fault,
                        raised |-> RaisedBy(fault), returned |-> FALSE]
    /\ UNCHANGED <<threads, hashSalt, hour, portfolio, created, seen>>

\* get_rebalancing_recommendations on the faulty holdings: the market is
\* classified (line 27), then the exception of line 30 propagates
GetRecommendationsFaulty(nifty, spy, fault) ==
    /\ HasPortfolio
    /\ fault \in HoldingFaults(portfolio)
    /\ \E days \in {DaysSinceCreation(portfolio, hour)} :
          /\ rng' = RngAtFault(portfolio, fault, hashSalt, days,
                               MarketRng(nifty, hour, rng))
          /\ result' = [op |-> "recommend", days |-> days, fault |-> fault,
                        nifty |-> nifty, spy |-> spy,
                        raised |-> RaisedBy(fault), returned |-> FALSE]
    /\ UNCHANGED <<threads, hashSalt, hour, portfolio, created, seen>>

FaultKinds == ColumnFaults \cup CellFaults

NextFaulty ==
    \/ Tick
    \/ AnalyzeDrift
    \/ \E k \in FaultKinds, i \in 1..Len(AssetOrder) :
          AnalyzeDriftFaulty([kind |-> k, index |-> i])
    \/ \E nifty \in SessionNifty, spy \in SessionSpy :
       \E k \in FaultKinds, i \in 1..Len(AssetOrder) :
          GetRecommendationsFaulty(nifty, spy, [kind |-> k, index |-> i])

SpecFaulty == InitSimulate /\ [][NextFaulty]_vars

(***************************************************************************)
(* Two threads running _analyze_allocation_drift on the same portfolio     *)
(* object.  A thread can be preempted between any two calls into numpy:    *)
(* after np.random.seed (line 177), after np.random.normal and the         *)
(* accumulation (lines 178-187), before the report and the write of        *)
(* current_value (lines 189-207).  The generator is the process-wide one.  *)
(* With a per-portfolio lock the caller lets one analysis run at a time.   *)
(***************************************************************************)
Running(t) == threads.run[t].pc \notin {"idle", "done"}

\* thread t takes the processor from a thread that is in the middle of its
\* analysis
Preempts(t) == \E u \in Threads : u # t /\ threads.last = u /\ Running(u)

\* variant: the lock is not consulted
MayStartUnlocked(t) == TRUE

\* the caller's lock, when one is used, must be free
MayStart(t) == threads.lock \in {-1, 0}

\* the bookkeeping of one step of thread t: frame is its new frame
Step(t, frame, lock) ==
    /\ threads.switches + (IF Preempts(t) THEN 1 ELSE 0) <= MaxSwitches
    /\ threads' = [lock |-> lock, last |-> t,
                   switches |-> threads.switches + (IF Preempts(t) THEN 1 ELSE 0),
                   run |-> [threads.run EXCEPT ![t] = frame]]

\* lines 153-159: the call starts
ThreadStart(t) ==
    /\ HasPortfolio /\ Len(portfolio.holdings) > 0
    /\ threads.run[t].pc = "idle"
    /\ MayStart(t)
    /\ Step(t, [IdleThread EXCEPT !.pc = "seed", !.i = 1],
            IF threads.lock = -1 THEN -1 ELSE t)
    /\ UNCHANGED <<hashSalt, rng, hour, portfolio, created, result, seen>>

\* lines 162-177 for holding i: np.random.seed(hash(fund name) % 2**32)
ThreadSeed(t) ==
    /\ threads.run[t].pc = "seed"
    /\ rng' = HoldingSeed(hashSalt, portfolio.holdings[threads.run[t].i], rng)
    /\ Step(t, [threads.run[t] EXCEPT !.pc = "draw"], threads.lock)
    /\ UNCHANGED <<hashSalt, hour, portfolio, created, result, seen>>

\* lines 178-187 for holding i: the draw reads the generator as it is now
ThreadDraw(t) ==
    /\ threads.run[t].pc = "draw"
    /\ LET f == threads.run[t]
           h == portfolio.holdings[f.i]
           days == DaysSinceCreation(portfolio, hour)
           cumulative_return ==
               GrowthFactor(DailyMean(h.asset_class), DailyVol(h.asset_class),
                            days, rng) - Scale
       IN /\ rng' = RngAdvance(rng, days)
          /\ Step(t, [f EXCEPT !.pc = IF f.i = Len(portfolio.holdings)
                                      THEN "report" ELSE "seed",
                               !.i = f.i + 1,
                               !.cumulative = Append(f.cumulative, cumulative_return),
                               !.value = Append(f.value,
                                            HoldingValue(portfolio, h, cumulative_return))],
                  threads.lock)
    /\ UNCHANGED <<hashSalt, hour, portfolio, created, result, seen>>

\* lines 189-209: the report, the write of current_value, the return
ThreadReport(t) ==
    /\ threads.run[t].pc = "report"
    /\ LET f == threads.run[t]
           total == SumSeq(f.value)
       IN /\ portfolio' = UpdatePortfolio(portfolio, [total_current_value |-> total])
          /\ Step(t, [f EXCEPT !.pc = "done",
                               !.drift_analysis = DriftReport(portfolio, f.value, total),
                               !.total_current_value = total],
                  IF threads.lock = -1 THEN -1 ELSE 0)
    /\ UNCHANGED <<hashSalt, rng, hour, created, result, seen>>

InitConcurrent ==
    /\ InitCreated
    /\ threads \in {NoThreads, [NoThreads EXCEPT !.lock = 0]}

NextConcurrent ==
    \E t \in Threads :
        \/ ThreadStart(t)
        \/ ThreadSeed(t)
        \/ ThreadDraw(t)
        \/ ThreadReport(t)

SpecConcurrent == InitConcurrent /\ [][NextConcurrent]_vars

(***************************************************************************)
(* Lines 33-46 of get_rebalancing_recommendations as a function of the     *)
(* drift report and the market condition it is given.  The reports are     *)
(* those of a Medium portfolio worth 1000 in which three classes have      *)
(* drifted by whole percentages that cancel out, the thresholds 5 and 10   *)
(* included; the market conditions are every regime at confidences around  *)
(* 0.8.                                                                    *)
(***************************************************************************)
DriftLevels == {-11, -10, -6, -5, 0, 5, 6, 10, 11}

ReportTotal == 10 * 100

\* the report in which class a has drifted by d[a] percent of the total
ReportOf(d) ==
    [a \in AssetClasses |->
        [target_percentage |-> TierAllocation("Medium")[a],
         current_num |-> (TierAllocation("Medium")[a] + d[a]) * ReportTotal,
         drift_num |-> d[a] * ReportTotal,
         drift_amount |-> (d[a] * ReportTotal) \div 100]]

DriftInputs ==
    {ReportOf([a \in AssetClasses |->
                 IF a = x THEN d1 ELSE IF a = y THEN d2 ELSE IF a = z THEN d3 ELSE 0]) :
        <<x, y, z, d1, d2, d3>> \in
            {q \in AssetClasses \X AssetClasses \X AssetClasses
                     \X DriftLevels \X DriftLevels \X DriftLevels :
                /\ q[1] # q[2] /\ q[2] # q[3] /\ q[1] # q[3]
                /\ q[4] + q[5] + q[6] = 0
                /\ TierAllocation("Medium")[q[1]] + q[4] >= 0
                /\ TierAllocation("Medium")[q[2]] + q[5] >= 0
                /\ TierAllocation("Medium")[q[3]] + q[6] >= 0}}

MarketInputs ==
    [condition : {"volatile_market", "bull_market", "bear_market", "stable_market"},
     confidence : {7000, 8000, 8001, 9500}]

\* the arguments of the call
InitRecommend ==
    /\ hashSalt = 0
    /\ rng = 0
    /\ hour = 0
    /\ portfolio = NoPortfolio
    /\ created = NoPortfolio
    /\ \E drift \in DriftInputs, market \in MarketInputs :
          result = [op |-> "pending", drift_analysis |-> drift,
                    total_current_value |-> ReportTotal, market |-> market]
    /\ seen = <<>>
    /\ threads = NoThreads

\* lines 33-46 applied to them
RecommendPending ==
    /\ result.op = "pending"
    /\ result' = [op |-> "recommend", drift_analysis |-> result.drift_analysis,
                  total_current_value |-> result.total_current_value,
                  market |-> result.market,
                  recommendations |->
                      Recommendations(result.drift_analysis,
                                      result.total_current_value, result.market)]
    /\ UNCHANGED <<threads, hashSalt, rng, hour, portfolio, created, seen>>

NextRecommend == RecommendPending

SpecRecommend == InitRecommend /\ [][NextRecommend]_vars

(***************************************************************************)
(* RiskProfiler.calculate_risk_score.  Question scores are in hundredths   *)
(* of a point.  answers is a function from the keys given to their values; *)
(* the five basic keys carry one of the listed options and a whole         *)
(* percentage, the extended keys are optional.                             *)
(***************************************************************************)
risk_questions ==
    [market_reaction |->
        ("Sell immediately" :> 1 @@ "Hold and wait" :> 3 @@ "Buy more" :> 5),
     experience |->
        ("Beginner" :> 1 @@ "Intermediate" :> 3 @@ "Advanced" :> 5),
     liquidity_need |->
        ("Very important" :> 1 @@ "Somewhat important" :> 3 @@ "Not important" :> 5),
     objective |->
        ("Capital preservation" :> 1 @@ "Balanced growth" :> 3 @@ "Aggressive growth" :> 5)]

volatility_scores ==
    ("Sell everything immediately" :> 1 @@ "Sell some and keep some" :> 2
       @@ "Keep everything" :> 4 @@ "Invest more money" :> 5)

horizon_scores ==
    ("Less than 1 year" :> 1 @@ "1-3 years" :> 2 @@ "3-5 years" :> 3
       @@ "5-10 years" :> 4 @@ "More than 10 years" :> 5)

situation_scores ==
    ("Struggling to meet expenses" :> 1 @@ "Meeting expenses with little left" :> 2
       @@ "Comfortable with some savings" :> 4
       @@ "Very comfortable with substantial savings" :> 5)

style_scores ==
    ("Very conservative, avoid all risks" :> 1 @@ "Somewhat conservative" :> 2
       @@ "Balanced approach" :> 3 @@ "Somewhat aggressive" :> 4
       @@ "Very aggressive" :> 5)

\* scores.get(answer, 3), in hundredths
ScoreGet(scores, answer) ==
    IF answer \in DOMAIN scores THEN scores[answer] * 100 ELSE 300

\* lines 55-95: one extended question, scored only if its key is present
Extended(answers, key, scores) ==
    IF key \in DOMAIN answers
    THEN [total |-> ScoreGet(scores, answers[key]), max |-> 500]
    ELSE [total |-> 0, max |-> 0]

\* lines 29-100: total_score and max_score
TotalAndMax(answers) ==
    LET volatility == Extended(answers, "volatility_reaction", volatility_scores)
        horizon == Extended(answers, "time_horizon", horizon_scores)
        situation == Extended(answers, "financial_situation", situation_scores)
        style == Extended(answers, "decision_style", style_scores)
        wealth == IF "wealth_percentage" \in DOMAIN answers
                  THEN [total |-> Min(answers["wealth_percentage"] * 5, 500), max |-> 500]
                  ELSE [total |-> 0, max |-> 0]
    IN [total |-> risk_questions.market_reaction[answers["market_reaction"]] * 100
                    + risk_questions.experience[answers["experience"]] * 100
                    + Min(answers["loss_tolerance"] * 10, 500)
                    + risk_questions.liquidity_need[answers["liquidity_need"]] * 100
                    + risk_questions.objective[answers["objective"]] * 100
                    + volatility.total + horizon.total + situation.total
                    + style.total + wealth.total,
        max |-> 5 * 500 + volatility.max + horizon.max + situation.max
                  + style.max + wealth.max]

\* variant: a score of exactly 35 or 65 falls into the higher category
RiskCategoryExclusive(total, max) ==
    IF total * 100 < 35 * max THEN [category |-> "Conservative", risk_level |-> "Low"]
    ELSE IF total * 100 < 65 * max THEN [category |-> "Moderate", risk_level |-> "Medium"]
    ELSE [category |-> "Aggressive", risk_level |-> "High"]

\* lines 103-114: risk_score = total / max * 100 against 35 and 65
RiskCategory(total, max) ==
    IF total * 100 <= 35 * max THEN [category |-> "Conservative", risk_level |-> "Low"]
    ELSE IF total * 100 <= 65 * max THEN [category |-> "Moderate", risk_level |-> "Medium"]
    ELSE [category |-> "Aggressive", risk_level |-> "High"]

\* round(risk_score, 1) in tenths of a percent, ties to the even digit
RoundedScore(total, max) ==
    LET q == (total * 1000) \div max
        twice == 2 * ((total * 1000) % max)
    IN IF twice > max \/ (twice = max /\ q % 2 = 1) THEN q + 1 ELSE q

\* _get_recommendations: the entry of the category (Moderate by default),
\* named by its key_focus
GetRecommendationsFor(category) ==
    CASE category = "Conservative" -> "Capital preservation with modest growth"
      [] category = "Aggressive" -> "Maximum growth potential with higher risk"
      [] OTHER -> "Balanced growth with moderate risk"

\* the returned dict, with the unrounded total and max it was computed from
RiskProfilerCalculateRiskScore(answers) ==
    LET tm == TotalAndMax(answers)
        cat == RiskCategory(tm.total, tm.max)
    IN [total_score |-> tm.total,
        max_score |-> tm.max,
        score |-> RoundedScore(tm.total, tm.max),
        category |-> cat.category,
        risk_level |-> cat.risk_level,
        recommendations |-> GetRecommendationsFor(cat.category)]

(***************************************************************************)
(* calculate_risk_score on its own, over questionnaires with every option  *)
(* of the four basic questions, loss tolerances from 0 to 100, and none,   *)
(* some or all of the extended questions (one with an unlisted option).    *)
(***************************************************************************)
LossTolerances == {0, 5, 15, 50, 100}

BasicAnswers ==
    {("market_reaction" :> a @@ "experience" :> b @@ "loss_tolerance" :> l
        @@ "liquidity_need" :> c @@ "objective" :> d) :
        <<a, b, l, c, d>> \in (DOMAIN risk_questions.market_reaction)
                                \X (DOMAIN risk_questions.experience)
                                \X LossTolerances
                                \X (DOMAIN risk_questions.liquidity_need)
                                \X (DOMAIN risk_questions.objective)}

ExtendedAnswers ==
    {<<>>,
     "volatility_reaction" :> "Keep everything",
     "volatility_reaction" :> "Wait and see",
     "time_horizon" :> "1-3 years" @@ "wealth_percentage" :> 30,
     "volatility_reaction" :> "Invest more money" @@ "time_horizon" :> "More than 10 years"
        @@ "financial_situation" :> "Very comfortable with substantial savings"
        @@ "decision_style" :> "Very aggressive" @@ "wealth_percentage" :> 100,
     "volatility_reaction" :> "Sell everything immediately"
        @@ "time_horizon" :> "Less than 1 year"
        @@ "financial_situation" :> "Struggling to meet expenses"
        @@ "decision_style" :> "Very conservative, avoid all risks"
        @@ "wealth_percentage" :> 0}

Questionnaires == {b @@ e : b \in BasicAnswers, e \in ExtendedAnswers}

InitProfile ==
    /\ hashSalt = 0
    /\ rng = 0
    /\ hour = 0
    /\ portfolio = NoPortfolio
    /\ created = NoPortfolio
    /\ \E answers \in Questionnaires : result = [op |-> "answers", answers |-> answers]
    /\ seen = <<>>
    /\ threads = NoThreads

\* calculate_risk_score applied to the answers
ScoreAnswers ==
    /\ result.op = "answers"
    /\ result' = [op |-> "risk_score", answers |-> result.answers,
                  profile |-> RiskProfilerCalculateRiskScore(result.answers)]
    /\ UNCHANGED <<threads, hashSalt, rng, hour, portfolio, created, seen>>

NextProfile == ScoreAnswers

SpecProfile == InitProfile /\ [][NextProfile]_vars

(***************************************************************************)
(* get_rebalancing_recommendations with the regime classified by           *)
(* _analyze_market_conditions from every index outcome at every clock      *)
(* hour, over drift reports in which large caps, debt and gold have        *)
(* drifted.                                                                *)
(***************************************************************************)
ClassifiedReports ==
    {ReportOf([a \in AssetClasses |->
                 IF a = "Large Cap Equity" THEN d1
                 ELSE IF a = "Debt Funds" THEN d2
                 ELSE IF a = "Gold ETF" THEN d3 ELSE 0]) :
        <<d1, d2, d3>> \in
            {q \in DriftLevels \X DriftLevels \X DriftLevels :
                /\ q[1] + q[2] + q[3] = 0
                /\ TierAllocation("Medium")["Gold ETF"] + q[3] >= 0}}

\* the arguments of the call and the index outcomes it will meet
InitClassified ==
    /\ hashSalt = 0
    /\ rng = 0
    /\ hour \in ClockHours
    /\ portfolio = NoPortfolio
    /\ created = NoPortfolio
    /\ \E drift \in ClassifiedReports, nifty \in NiftyOutcomes, spy \in SpyOutcomes :
          result = [op |-> "pending", drift_analysis |-> drift,
                    total_current_value |-> ReportTotal,
                    nifty |-> nifty, spy |-> spy]
    /\ seen = <<>>
    /\ threads = NoThreads

\* lines 27-46: the regime is classified, then the list is built
RecommendClassified ==
    /\ result.op = "pending"
    /\ \E market \in {AnalyzeMarketConditions(result.nifty, result.spy, hour)} :
          result' = [op |-> "recommend", drift_analysis |-> result.drift_analysis,
                     total_current_value |-> result.total_current_value,
                     nifty |-> result.nifty, spy |-> result.spy,
                     market |-> market,
                     recommendations |->
                         Recommendations(result.drift_analysis,
                                         result.total_current_value, market)]
    /\ rng' = MarketRng(result.nifty, hour, rng)
    /\ UNCHANGED <<threads, hashSalt, hour, portfolio, created, seen>>

NextClassified == RecommendClassified

SpecClassified == InitClassified /\ [][NextClassified]_vars

(***************************************************************************)
(* Properties.                                                             *)
(***************************************************************************)
JustCreated == result.op = "create" /\ result.returned

\* C1: for each risk tier the catalog's target percentages over the six asset
\* classes sum to exactly 100, and so does the allocation of every portfolio
\* created from the catalog.
C1_CatalogSumsTo100 ==
    /\ \A t \in RiskTiers :
          SumOver([a \in AssetClasses |-> asset_classes[a].allocation[t]],
                  AssetClasses) = 100
    /\ \A t \in RiskTiers : SumOver(TierAllocation(t), AssetClasses) = 100
    /\ HasPortfolio => SumOver(portfolio.allocation, AssetClasses) = 100

C1_Witness ==
    JustCreated /\ result.risk_appetite = "Low" /\ portfolio.allocation["Debt Funds"] = 60

\* C2 as stated: create_portfolio for risk appetite Medium and investment
\* amount 100000 returns expected_return 11.15 %.
C2_Original ==
    (JustCreated /\ result.risk_appetite = "Medium" /\ result.investment_amount = 100000)
        => portfolio.expected_return = 1115

\* C2 as amended: create_portfolio for risk appetite Medium and investment
\* amount 100000 returns expected_return 10.70 %, the weighted sum
\* 0.35*12 + 0.15*15 + 0.05*18 + 0.35*7 + 0.05*8 + 0.05*10.
C2_MediumExpectedReturn ==
    (JustCreated /\ result.risk_appetite = "Medium" /\ result.investment_amount = 100000)
        => /\ portfolio.expected_return = 1070
           /\ 100 * portfolio.expected_return =
                 35 * 1200 + 15 * 1500 + 5 * 1800 + 35 * 700 + 5 * 800 + 5 * 1000

C2_Witness ==
    JustCreated /\ result.risk_appetite = "Medium" /\ result.investment_amount = 100000

\* C3: for every tier create_portfolio returns the catalog's percentages of
\* that tier as allocation, exactly one holding per asset class whose
\* percentage is > 0 and none for a class at 0 %, each with amount =
\* percentage / 100 x investment amount, and risk_score 3.0 / 6.0 / 8.5; High
\* with 200000 gives 50/25/15/5/3/2, six holdings and risk_score 8.5.
C3_CreatedPortfolio ==
    JustCreated =>
        LET t == result.risk_appetite
            inv == result.investment_amount
            hs == portfolio.holdings
        IN /\ \A a \in AssetClasses :
                 /\ portfolio.allocation[a] = asset_classes[a].allocation[t]
                 /\ Cardinality({i \in 1..Len(hs) : hs[i].asset_class = a})
                       = IF asset_classes[a].allocation[t] > 0 THEN 1 ELSE 0
           /\ \A i \in 1..Len(hs) :
                 /\ hs[i].allocation_pct = portfolio.allocation[hs[i].asset_class]
                 /\ hs[i].allocation_pct > 0
                 /\ 100 * hs[i].amount = hs[i].allocation_pct * inv
           /\ portfolio.risk_score = (CASE t = "Low" -> 30 [] t = "Medium" -> 60
                                        [] t = "High" -> 85)
           /\ (t = "High" /\ inv = 200000) =>
                 /\ portfolio.allocation =
                       [a \in AssetClasses |->
                          CASE a = "Large Cap Equity" -> 50
                            [] a = "Mid Cap Equity" -> 25
                            [] a = "Small Cap Equity" -> 15
                            [] a = "Debt Funds" -> 5
                            [] a = "Gold ETF" -> 3
                            [] a = "International Funds" -> 2]
                 /\ Len(hs) = 6
                 /\ portfolio.risk_score = 85

C3_Witness ==
    /\ JustCreated /\ result.risk_appetite = "High" /\ result.investment_amount = 200000
    /\ Len(portfolio.holdings) = 6

\* a second case of C3: the Low tier leaves Small Cap Equity at 0 % without a holding
C3_WitnessLow ==
    JustCreated /\ result.risk_appetite = "Low" /\ Len(portfolio.holdings) = 5

\* C4: create_portfolio with a risk appetite outside Low / Medium / High
\* raises (KeyError at the tier lookup, the code's form of the validation
\* error) before any allocation, holding or metric is computed: no portfolio
\* is returned or stored and no random draw is consumed.
C4_UnknownTierRejected ==
    [][(result'.op = "create" /\ result'.risk_appetite \notin RiskTiers)
          => /\ result'.raised = "KeyError"
             /\ ~result'.returned
             /\ portfolio' = portfolio
             /\ created' = created
             /\ rng' = rng]_vars

C4_Witness ==
    /\ result.op = "create" /\ result.risk_appetite = "Aggressive"
    /\ result.raised = "KeyError" /\ ~result.returned

AnalysedDrift == result.op \in {"drift", "recommend", "simulate"}
CalledClassifier == result.op \in {"market", "recommend"}

\* C5: for every portfolio whose target allocation (over the six catalog
\* classes) sums to 100, every risk tolerance and every market outlook,
\* recognised or not, calculate_optimal_allocation returns a mapping whose
\* values sum to 100.
C5_OptimalSumsTo100 ==
    result.op = "optimal" =>
        LET o == result.optimal_allocation
        IN /\ o.raised = "none"
           /\ o.den > 0
           /\ DOMAIN o.num = AssetClasses
           /\ SumOver(o.num, AssetClasses) = 100 * o.den

\* a clamped and renormalised case: a bearish outlook zeroes a small equity target
C5_Witness ==
    /\ result.op = "optimal" /\ result.market_outlook = "bearish"
    /\ result.risk_tolerance = "Unknown"
    /\ result.optimal_allocation.den \notin {10, 1000}
    /\ \E a \in AssetClasses :
          portfolio.allocation[a] > 0 /\ result.optimal_allocation.num[a] = 0

\* C6: get_rebalancing_recommendations returns an empty list whenever every
\* asset class of the drift report has |drift_percentage| <= 5 and the
\* classified regime is stable_market.
C6_NoRecommendationWhenCalm ==
    (/\ result.op = "recommend"
     /\ result.market.condition = "stable_market"
     /\ \A a \in AssetClasses :
           Abs(result.drift_analysis[a].drift_num) <= 5 * result.total_current_value)
        => result.recommendations = <<>>

C6_Witness ==
    /\ result.op = "recommend"
    /\ result.market.condition = "stable_market"
    /\ \A a \in AssetClasses :
          Abs(result.drift_analysis[a].drift_num) <= 5 * result.total_current_value
    /\ \E a \in AssetClasses : result.drift_analysis[a].drift_num # 0
    /\ result.recommendations = <<>>

\* C7: whenever the returned MarketCondition is tagged 'simulated' (the fetch
\* raised, returned empty data or fewer than 20 rows), its volatility lies in
\* [10, 35] and its momentum in [-0.15, 0.15].
C7_SimulatedInRange ==
    (CalledClassifier /\ result.market.data_source = "simulated")
        => /\ result.market.data.volatility >= 1000
           /\ result.market.data.volatility <= 3500
           /\ result.market.data.momentum >= -1500
           /\ result.market.data.momentum <= 1500

\* the except branch after live statistics out of range were computed, with
\* both draws clamped
C7_Witness ==
    /\ result.op = "market" /\ result.nifty.kind = "ok_raise"
    /\ result.nifty.vol = 4200 /\ result.nifty.mom = 1800
    /\ result.market.data_source = "simulated"
    /\ result.market.data.volatility = 1000
    /\ result.market.data.momentum = 1500

\* C8: the classifier never propagates a data-source error: when the index
\* fetch raises, returns empty data or fewer than 20 rows, it still returns a
\* MarketCondition built from simulated or default statistics and tagged
\* 'simulated'; the tag is 'live' only when volatility and momentum were
\* computed from the fetched series.
C8_SoftFailAndTag ==
    CalledClassifier =>
        LET m == result.market
            k == result.nifty.kind
        IN /\ m.condition \in {"volatile_market", "bull_market", "bear_market",
                               "stable_market"}
           /\ k \in {"raise", "empty", "short"} => m.data_source = "simulated"
           /\ k \in {"empty", "short"} =>
                 /\ m.data.volatility = 1800 /\ m.data.momentum = 100
                 /\ m.data.trend = "sideways" /\ m.data.correlation = 500
           /\ k = "raise" =>
                 /\ m.data.volatility \in 1000..3500
                 /\ m.data.momentum \in -1500..1500
                 /\ m.data.trend = (IF m.data.momentum > 300 THEN "bullish"
                                    ELSE IF m.data.momentum < -300 THEN "bearish"
                                    ELSE "sideways")
                 /\ m.data.correlation \in 400..700
           /\ m.data_source = "live" =>
                 /\ k = "ok"
                 /\ m.data.volatility = result.nifty.vol
                 /\ m.data.momentum = result.nifty.mom
           /\ m.data_source \in {"live", "simulated"}

C8_Witness ==
    /\ result.op = "market" /\ result.nifty.kind = "short"
    /\ result.market.data_source = "simulated"
    /\ result.market.condition = "stable_market"

\* further cases of C8: the fetch raises; a live series is tagged live
C8_WitnessRaise ==
    /\ result.op = "market" /\ result.nifty.kind = "raise"
    /\ result.market.data_source = "simulated" /\ hour > 0

C8_WitnessLive ==
    /\ result.op = "market" /\ result.nifty.kind = "ok"
    /\ result.market.data_source = "live" /\ result.market.condition = "bear_market"

\* C9: for a fixed portfolio and a fixed days-elapsed value, repeated drift
\* analyses (called directly or through recommend / simulate) produce the same
\* per-holding cumulative return, the same DriftReport and the same
\* portfolio.current_value; a later analysis is computed from the holdings'
\* invested amounts and never compounds on an earlier current_value.
C9_RepeatedAnalysisStable ==
    AnalysedDrift =>
        /\ \A i \in 1..Len(portfolio.holdings) :
              result.value[i] =
                 (created.holdings[i].amount * (Scale + result.cumulative[i])) \div Scale
        /\ portfolio.current_value = SumSeq(result.value)
        /\ (result.prior # <<>> /\ result.prior[1].days = result.days) =>
              /\ result.cumulative = result.prior[1].cumulative
              /\ result.drift_analysis = result.prior[1].drift_analysis
              /\ portfolio.current_value = result.prior[1].current_value

\* a repeated analysis at the same days-elapsed, after the first one moved current_value
C9_Witness ==
    /\ result.op = "simulate"
    /\ result.prior # <<>> /\ result.prior[1].days = result.days /\ result.days = 2
    /\ result.prior[1].current_value # created.current_value
    /\ \E i \in 1..Len(portfolio.holdings) : result.cumulative[i] # 0

\* C10: after create_portfolio followed by any sequence of drift analysis,
\* get_rebalancing_recommendations, simulate_rebalancing_impact,
\* calculate_optimal_allocation and get_rebalancing_schedule calls, the
\* portfolio's allocation, holdings, created_date, expected_return,
\* portfolio_risk, risk_score and sharpe_ratio equal their values at creation;
\* current_value is the only field that may differ.
C10_OnlyCurrentValueMutated ==
    HasPortfolio =>
        /\ portfolio.allocation = created.allocation
        /\ portfolio.holdings = created.holdings
        /\ portfolio.created_date = created.created_date
        /\ portfolio.expected_return = created.expected_return
        /\ portfolio.portfolio_risk = created.portfolio_risk
        /\ portfolio.risk_score = created.risk_score
        /\ portfolio.sharpe_ratio = created.sharpe_ratio
        /\ portfolio.client_id = created.client_id

\* a read-only call after an analysis has moved current_value
C10_Witness ==
    /\ HasPortfolio
    /\ result.op = "schedule"
    /\ seen # <<>>
    /\ portfolio.current_value # created.current_value

\* C11: every drift analysis (direct, or inside recommend / simulate) leaves
\* portfolio.current_value equal to the sum of the per-holding current values
\* it just computed; simulate_rebalancing_impact reads portfolio_value after
\* that analysis, so its transaction cost is the cost formula evaluated at the
\* refreshed value, whatever the portfolio held before the call.
C11_CostFromRefreshedValue ==
    /\ AnalysedDrift => portfolio.current_value = SumSeq(result.value)
    /\ result.op = "simulate" =>
          LET current == [num |-> [a \in AssetClasses |->
                                      result.drift_analysis[a].current_num],
                          den |-> SumSeq(result.value)]
          IN /\ result.metrics.portfolio_value = SumSeq(result.value)
             /\ result.metrics.transaction_cost
                   = CostOver(DOMAIN result.proposed_allocation.num,
                              result.proposed_allocation, current,
                              SumSeq(result.value))

\* a simulation whose analysis changed current_value and that charges a cost
C11_Witness ==
    /\ result.op = "simulate"
    /\ result.value_before # portfolio.current_value
    /\ result.metrics.transaction_cost > 0
    /\ result.metrics.transaction_cost
          # CostOver(DOMAIN result.proposed_allocation.num,
                     result.proposed_allocation,
                     [num |-> [a \in AssetClasses |->
                                  result.drift_analysis[a].current_num],
                      den |-> SumSeq(result.value)],
                     result.value_before)

\* C12: no Sharpe computation divides by zero.  create_portfolio returns
\* sharpe_ratio = expected_return / portfolio_risk, and 0 when the risk is 0;
\* simulate_rebalancing_impact returns (return - 6.0) / risk for the current
\* and for the new allocation, and 0 when that risk is 0; neither raises.
C12_SharpeGuarded ==
    /\ result.op = "simulate" =>
          LET m == result.metrics
          IN /\ m.current_sharpe.raised = "none"
             /\ m.new_sharpe.raised = "none"
             /\ m.current_sharpe.value
                   = IF m.current_risk = 0 THEN 0
                     ELSE ((m.current_return - 6000) * 1000) \div m.current_risk
             /\ m.new_sharpe.value
                   = IF m.new_risk = 0 THEN 0
                     ELSE ((m.new_return - 6000) * 1000) \div m.new_risk
    /\ HasPortfolio =>
          created.sharpe_ratio
             = IF created.portfolio_risk = 0 THEN 0
               ELSE (100 * created.expected_return) \div created.portfolio_risk

\* a simulation whose proposed allocation has zero risk: its Sharpe ratio is 0
C12_Witness ==
    /\ result.op = "simulate"
    /\ result.metrics.new_risk = 0
    /\ result.metrics.new_sharpe = [value |-> 0, raised |-> "none"]
    /\ result.metrics.current_risk > 0
    /\ result.metrics.current_sharpe.value # 0

\* C13 (as claimed): when analysing one holding fails, drift analysis and
\* get_rebalancing_recommendations still return a result and no exception
\* escapes.
C13_FaultyHoldingTolerated ==
    ("fault" \in DOMAIN result) => (result.returned /\ result.raised = "none")

\* what the code does: the exception of the faulty holding escapes
\* get_rebalancing_recommendations, nothing is returned and current_value
\* is not refreshed
C13_Witness ==
    /\ result.op = "recommend"
    /\ "fault" \in DOMAIN result
    /\ result.fault.kind = "text Amount" /\ result.fault.index = 3
    /\ result.raised = "TypeError" /\ ~result.returned

\* the simulation of a proposed allocation over the six catalog classes with
\* percentages in [0,100] summing to 100
SimulatedValid ==
    /\ result.op = "simulate"
    /\ DOMAIN result.proposed_allocation.num = AssetClasses
    /\ result.proposed_allocation.den = 1
    /\ \A a \in AssetClasses : result.proposed_allocation.num[a] \in 0..100
    /\ SumOver(result.proposed_allocation.num, AssetClasses) = 100

\* the variance of the simplified formula of create_portfolio,
\* sum(((w / 100) * risk) ** 2), in the units of new_variance
SimplifiedVariance ==
    SumOver([a \in AssetClasses |->
                (result.proposed_allocation.num[a] * 10 * asset_classes[a].risk)
                  * (result.proposed_allocation.num[a] * 10 * asset_classes[a].risk)],
            AssetClasses)

\* two distinct classes that both carry weight and are correlated
HeldCorrelatedPair ==
    \E a \in AssetClasses, b \in AssetClasses :
        /\ a # b
        /\ result.proposed_allocation.num[a] > 0
        /\ result.proposed_allocation.num[b] > 0
        /\ correlation_matrix[a][b] # 0

\* C14 (as claimed): the correlated risk is non-negative and equals the
\* simplified formula's value only when all off-diagonal correlations are 0.
C14_Original ==
    SimulatedValid =>
        /\ result.metrics.new_variance >= 0
        /\ result.metrics.new_risk >= 0
        /\ result.metrics.new_variance = SimplifiedVariance
              => \A a \in AssetClasses, b \in AssetClasses :
                    a # b => correlation_matrix[a][b] = 0

\* C14 (amended): for any allocation over the catalog classes with
\* percentages in [0,100] summing to 100 the correlated risk is non-negative
\* and never below the simplified formula's value, and the two are equal
\* exactly when no two distinct classes that both carry a positive weight
\* have a non-zero correlation (a single-class allocation, or Small Cap
\* Equity with Debt Funds).  The values are compared as variances.
C14_CorrelatedRisk ==
    SimulatedValid =>
        /\ result.metrics.new_variance >= 0
        /\ result.metrics.new_risk >= 0
        /\ result.metrics.new_risk * result.metrics.new_risk
              <= result.metrics.new_variance
        /\ result.metrics.new_variance >= SimplifiedVariance
        /\ (result.metrics.new_variance = SimplifiedVariance) <=> ~HeldCorrelatedPair

\* the correlated and the simplified value agree on a two-class allocation,
\* although the matrix has non-zero off-diagonal entries
C14_Witness ==
    /\ SimulatedValid
    /\ result.proposed_allocation.num["Small Cap Equity"] = 50
    /\ result.proposed_allocation.num["Debt Funds"] = 50
    /\ result.metrics.new_variance = SimplifiedVariance
    /\ result.metrics.new_risk > 0

\* what a serial execution of the analysis yields for the portfolio
SerialAnalysis ==
    AnalyzeAllocationDrift(created, hashSalt, DaysSinceCreation(created, hour), 0)

\* thread t returned what the serial execution returns
ReturnedSerial(t) ==
    /\ threads.run[t].cumulative = SerialAnalysis.cumulative
    /\ threads.run[t].drift_analysis = SerialAnalysis.drift_analysis

\* C15: when the caller serializes the analyses of one portfolio with a
\* lock, every analysis returns the cumulative returns and the DriftReport of
\* the serial execution and leaves the serial current_value; without a lock
\* an interleaving exists (C15_Witness) in which a returned report and the
\* final current_value differ from the serial ones.
C15_SerializedMatchesSerial ==
    threads.lock # -1 =>
        \A t \in Threads :
            threads.run[t].pc = "done" =>
                /\ ReturnedSerial(t)
                /\ portfolio.current_value = SerialAnalysis.total_current_value

\* without a lock: both analyses have returned, one report differs from the
\* serial one and so does the final current_value
C15_Witness ==
    /\ threads.lock = -1
    /\ \A t \in Threads : threads.run[t].pc = "done"
    /\ \E t \in Threads : ~ReturnedSerial(t)
    /\ portfolio.current_value # SerialAnalysis.total_current_value

\* the current allocation a simulation worked from, rebuilt from its report
SimulatedCurrent ==
    [num |-> [a \in DOMAIN result.drift_analysis |->
                 result.drift_analysis[a].current_num],
     den |-> result.total_current_value]

\* C16 (as claimed): the transaction cost is the sum, over every asset class
\* that appears in the current or in the proposed allocation (a class absent
\* from one side counting as 0% there), of
\* |proposed% - current%| / 100 x current_value x costRate, with costRate
\* 0.1% for 'Equity', else 0.05% for 'Debt', else 0.15% for 'International',
\* else 0.1%.
C16_CostOverEitherSide ==
    result.op = "simulate" =>
        result.metrics.transaction_cost
           = SumOver([a \in DOMAIN result.proposed_allocation.num
                              \cup DOMAIN result.drift_analysis |->
                        ((Abs(Tenths(result.proposed_allocation, a)
                               - Tenths(SimulatedCurrent, a))
                            * portfolio.current_value) \div 1000)
                          * (IF HasEquity(a) THEN 10
                             ELSE IF HasDebt(a) THEN 5
                             ELSE IF HasInternational(a) THEN 15
                             ELSE 10)],
                     DOMAIN result.proposed_allocation.num
                        \cup DOMAIN result.drift_analysis)

\* what the code does: a proposal of Debt Funds alone is charged for the
\* purchase of debt only, the sale of every other class held costs nothing
C16_Witness ==
    /\ result.op = "simulate"
    /\ DOMAIN result.proposed_allocation.num = {"Debt Funds"}
    /\ Tenths(SimulatedCurrent, "Large Cap Equity") > 0
    /\ result.metrics.transaction_cost
          = ((Abs(1000 - Tenths(SimulatedCurrent, "Debt Funds"))
                * portfolio.current_value) \div 1000) * 5

\* the portfolio variance of the simulated proposal when a class missing
\* from the catalog enters with 10% risk and 0.5 correlation to every other
\* class, its correlation with itself being self
VarianceWithDefaults(self) ==
    LET al == result.proposed_allocation
        assets == DOMAIN al.num
        rho(a, b) == IF a \in AssetClasses /\ b \in AssetClasses
                     THEN correlation_matrix[a][b]
                     ELSE IF a = b THEN self ELSE 50
        sigma(a) == IF a \in AssetClasses THEN asset_details[a].risk ELSE 10
    IN SumOver([a \in assets |->
                  SumOver([b \in assets |->
                             MulDiv((Tenths(al, a) * sigma(a)) * (Tenths(al, b) * sigma(b)),
                                    rho(a, b), 100)],
                          assets)],
               assets)

\* C17 (as claimed): an asset class missing from the catalog is looked up
\* with the defaults 8% return, 10% risk and 0.5 correlation everywhere; in
\* particular an unknown class in a proposed allocation enters the simulated
\* return with 8% and the simulated portfolio risk with 10% risk and 0.5
\* correlation to every other class (its correlation with itself read as
\* either 1.0 or the same default 0.5).
C17_DefaultsThroughout ==
    result.op = "simulate" =>
        /\ result.metrics.new_return
              = SumOver([a \in DOMAIN result.proposed_allocation.num |->
                           Tenths(result.proposed_allocation, a)
                             * (IF a \in AssetClasses THEN asset_details[a].return
                                ELSE 8)],
                        DOMAIN result.proposed_allocation.num)
        /\ result.metrics.new_variance
              \in {VarianceWithDefaults(100), VarianceWithDefaults(50)}

\* what the code does: half of the proposal is in an unknown class, and the
\* simulated risk is that of the Large Cap Equity half alone (7.5%)
C17_Witness ==
    /\ result.op = "simulate"
    /\ DOMAIN result.proposed_allocation.num = {"Large Cap Equity", UnknownAsset}
    /\ Tenths(result.proposed_allocation, UnknownAsset) = 500
    /\ result.metrics.new_risk = 7500
    /\ result.metrics.new_return = 500 * 12 + 500 * 8

\* C18: for every indicator snapshot the regime is decided by first match in
\* a fixed order: volatility > 25 gives volatile_market, whatever momentum and
\* trend are; otherwise momentum > 3% with a bullish trend gives bull_market;
\* otherwise momentum < -3% with a bearish trend gives bear_market; otherwise
\* stable_market.  Exactly one of the four regimes is returned.
C18_RegimeFirstMatch ==
    CalledClassifier =>
        LET d == result.market.data
            c == result.market.condition
            bull == d.momentum > 300 /\ d.trend = "bullish"
            bear == d.momentum < -300 /\ d.trend = "bearish"
        IN /\ c \in {"volatile_market", "bull_market", "bear_market", "stable_market"}
           /\ (c = "volatile_market") <=> (d.volatility > 2500)
           /\ (c = "bull_market") <=> (d.volatility <= 2500 /\ bull)
           /\ (c = "bear_market") <=> (d.volatility <= 2500 /\ ~bull /\ bear)
           /\ (c = "stable_market") <=> (d.volatility <= 2500 /\ ~bull /\ ~bear)

\* a volatile snapshot that also has momentum above 3% and a bullish trend
C18_Witness ==
    /\ CalledClassifier
    /\ result.market.data.volatility > 2500
    /\ result.market.data.momentum > 300
    /\ result.market.data.trend = "bullish"
    /\ result.market.condition = "volatile_market"

\* a volatile snapshot with momentum below -3% and a bearish trend
C18_WitnessBear ==
    /\ CalledClassifier
    /\ result.market.data.volatility > 2500
    /\ result.market.data.momentum < -300
    /\ result.market.data.trend = "bearish"
    /\ result.market.condition = "volatile_market"

\* a snapshot at exactly 25 volatility, decided by its momentum
C18_WitnessBoundary ==
    /\ CalledClassifier
    /\ result.market.data.volatility = 2500
    /\ result.market.condition = "bull_market"

\* the drift recommendations of the returned list for asset class a
DriftRecsFor(a) ==
    {i \in 1..Len(result.recommendations) :
        /\ result.recommendations[i].asset = a
        /\ result.recommendations[i].action # "INCREASE"}

\* C19: get_rebalancing_recommendations emits exactly one drift
\* recommendation for each asset class whose |drift_percentage| is strictly
\* greater than 5 and none for any other class (none at exactly +5 or -5);
\* its action is SELL when drift > 5 and BUY when drift < -5, never HOLD, and
\* its priority is High iff |drift| > 10, otherwise Medium.
C19_DriftRecommendations ==
    result.op = "recommend" =>
        \A a \in AssetClasses :
            LET drift_num == result.drift_analysis[a].drift_num
                total == result.total_current_value
            IN /\ Cardinality(DriftRecsFor(a))
                     = IF drift_num > 5 * total \/ drift_num < -(5 * total) THEN 1 ELSE 0
               /\ \A i \in DriftRecsFor(a) :
                     LET rec == result.recommendations[i]
                     IN /\ rec.action # "HOLD"
                        /\ rec.action = IF drift_num > 5 * total THEN "SELL" ELSE "BUY"
                        /\ rec.priority
                              = IF drift_num > 10 * total \/ drift_num < -(10 * total)
                                THEN "High" ELSE "Medium"

\* a report with a class at exactly -5 (no recommendation), a class above
\* 10 (SELL, High) and a class below -5 (BUY, Medium)
C19_Witness ==
    /\ result.op = "recommend"
    /\ \E a \in AssetClasses :
          /\ result.drift_analysis[a].drift_num = -(5 * result.total_current_value)
          /\ DriftRecsFor(a) = {}
    /\ \E i \in 1..Len(result.recommendations) :
          /\ result.recommendations[i].action = "SELL"
          /\ result.recommendations[i].priority = "High"
    /\ \E i \in 1..Len(result.recommendations) :
          /\ result.recommendations[i].action = "BUY"
          /\ result.recommendations[i].priority = "Medium"

\* a report with a class at exactly +10 (SELL, Medium) and a class at
\* exactly -10 (BUY, Medium)
C19_WitnessBoundary ==
    /\ result.op = "recommend"
    /\ \E i, j \in 1..Len(result.recommendations) :
          /\ result.recommendations[i].drift_num = 10 * result.total_current_value
          /\ result.recommendations[i].action = "SELL"
          /\ result.recommendations[i].priority = "Medium"
          /\ result.recommendations[j].drift_num = -(10 * result.total_current_value)
          /\ result.recommendations[j].action = "BUY"
          /\ result.recommendations[j].priority = "Medium"

\* the regime recommendations of the returned list
RegimeRecs ==
    {i \in 1..Len(result.recommendations) :
        result.recommendations[i].action = "INCREASE"}

\* C20: after the drift recommendations at most one regime recommendation
\* is appended, last in the list: INCREASE 'Equity Allocation' by 5% iff the
\* regime is bull_market and confidence > 0.8, INCREASE 'Debt Allocation' by
\* 10% iff the regime is bear_market and confidence > 0.8, INCREASE
\* 'Gold ETF' by 3% iff the regime is volatile_market at any confidence, and
\* none for stable_market.
C20_RegimeRecommendation ==
    result.op = "recommend" =>
        LET recs == result.recommendations
            c == result.market.condition
            sure == result.market.confidence > 8000
            has(asset, quantity) ==
                \E i \in RegimeRecs : recs[i].asset = asset /\ recs[i].quantity = quantity
        IN /\ Cardinality(RegimeRecs) <= 1
           /\ RegimeRecs \subseteq {Len(recs)}
           /\ has("Equity Allocation", 5) <=> (c = "bull_market" /\ sure)
           /\ has("Debt Allocation", 10) <=> (c = "bear_market" /\ sure)
           /\ has("Gold ETF", 3) <=> (c = "volatile_market")
           /\ RegimeRecs # {} =>
                 \/ has("Equity Allocation", 5)
                 \/ has("Debt Allocation", 10)
                 \/ has("Gold ETF", 3)
           /\ c = "stable_market" => RegimeRecs = {}

\* a bear market at high confidence: the debt recommendation follows two
\* drift recommendations
C20_Witness ==
    /\ result.op = "recommend"
    /\ result.market.condition = "bear_market"
    /\ result.market.confidence > 8000
    /\ Len(result.recommendations) = 3
    /\ result.recommendations[3].asset = "Debt Allocation"
    /\ result.recommendations[3].action = "INCREASE"
    /\ result.recommendations[1].action \in {"SELL", "BUY"}

\* a bull market at confidence exactly 0.8: no regime recommendation
C20_WitnessBoundary ==
    /\ result.op = "recommend"
    /\ result.market.condition = "bull_market"
    /\ result.market.confidence = 8000
    /\ RegimeRecs = {}

\* the adjustment the claim gives for class a, in tenths of a percent
ClaimedAdjustment(a) ==
    LET mo == result.market_outlook
        rt == result.risk_tolerance
        factor == IF rt = "Low" THEN 8 ELSE IF rt = "High" THEN 12 ELSE 10
        equity == IF mo = "bullish" THEN 5 ELSE IF mo = "bearish" THEN -8 ELSE 0
        debt == IF mo = "bullish" THEN -3 ELSE IF mo = "bearish" THEN 5 ELSE 0
        gold == IF mo = "bullish" THEN -2 ELSE IF mo = "bearish" THEN 3 ELSE 0
    IN IF a \in {"Large Cap Equity", "Mid Cap Equity", "Small Cap Equity"}
       THEN equity * factor
       ELSE IF a = "Debt Funds" THEN debt * 10
       ELSE IF a = "Gold ETF" THEN gold * 10
       ELSE 0

\* clamp(base + adj, 0, 100), in tenths of a percent
ClaimedClamped(a) ==
    Max(0, Min(1000, portfolio.allocation[a] * 10 + ClaimedAdjustment(a)))

\* C21: calculate_optimal_allocation returns a mapping over exactly the asset
\* classes of the target allocation; each value equals
\* clamp(base + adj, 0, 100) x 100 / (sum of the clamped values), adj being
\* the outlook's equity adjustment times the tier factor for equity classes,
\* the tier-independent debt and gold adjustments for those classes and 0
\* otherwise; every returned value lies in [0, 100].
C21_OptimalValues ==
    result.op = "optimal" =>
        LET o == result.optimal_allocation
            total == SumOver([a \in AssetClasses |-> ClaimedClamped(a)], AssetClasses)
        IN /\ o.raised = "none"
           /\ DOMAIN o.num = DOMAIN portfolio.allocation
           /\ o.den > 0 /\ total > 0
           /\ \A a \in DOMAIN o.num :
                 /\ o.num[a] * total = ClaimedClamped(a) * 100 * o.den
                 /\ o.num[a] >= 0
                 /\ o.num[a] <= 100 * o.den

\* a High-tier bearish call in which an equity target is clamped at 0, the
\* debt target is raised by 5 and the result is renormalised
C21_Witness ==
    /\ result.op = "optimal"
    /\ result.market_outlook = "bearish" /\ result.risk_tolerance = "High"
    /\ \E a \in AssetClasses :
          /\ HasEquity(a) /\ portfolio.allocation[a] \in 1..9
          /\ result.optimal_allocation.num[a] = 0
    /\ portfolio.allocation["Debt Funds"] > 0
    /\ SumOver([a \in AssetClasses |-> ClaimedClamped(a)], AssetClasses) # 1000
    /\ result.optimal_allocation.den
          = SumOver([a \in AssetClasses |-> ClaimedClamped(a)], AssetClasses)

\* sum_i sum_j w_i w_j r_i r_j rho_ij over the classes of an allocation
\* mapping, every pair included, with the catalog's risks
CorrelatedDoubleSum(allocation) ==
    LET assets == DOMAIN allocation.num
        wr(a) == ((allocation.num[a] * 10) \div allocation.den) * asset_classes[a].risk
    IN SumOver([i \in assets |->
                  SumOver([j \in assets |->
                             MulDiv(wr(i) * wr(j), correlation_matrix[i][j], 100)],
                          assets)],
               assets)

\* sum_i (w_i r_i)^2 over the catalog, w in whole percent
UncorrelatedSum(allocation) ==
    SumOver([a \in AssetClasses |->
                (allocation[a] * asset_classes[a].risk)
                  * (allocation[a] * asset_classes[a].risk)],
            AssetClasses)

\* C22: simulate_rebalancing_impact computes the current and the new risk
\* with the correlated double sum sqrt(sum_i sum_j w_i w_j r_i r_j rho_ij),
\* every off-diagonal term included; create_portfolio computes portfolio_risk
\* with the uncorrelated sqrt(sum_i (w_i r_i)^2); for each of the three
\* catalog tier allocations the two formulas give different values.  (The
\* simulated allocations are those over catalog classes; new_risk is in
\* thousandths and portfolio_risk in hundredths of a percent.)
C22_CorrelatedVersusSimple ==
    (result.op = "simulate" /\ DOMAIN result.proposed_allocation.num \subseteq AssetClasses)
        => /\ result.metrics.new_variance
                 = CorrelatedDoubleSum(result.proposed_allocation)
           /\ result.metrics.new_risk
                 = Isqrt(CorrelatedDoubleSum(result.proposed_allocation))
           /\ result.metrics.current_risk
                 = Isqrt(CorrelatedDoubleSum(CurrentAllocation(result)))
           /\ created.portfolio_risk = Isqrt(UncorrelatedSum(created.allocation))
           /\ \A t \in RiskTiers :
                 /\ CorrelatedDoubleSum(WholePercent(TierAllocation(t)))
                       # 100 * UncorrelatedSum(TierAllocation(t))
                 /\ Isqrt(CorrelatedDoubleSum(WholePercent(TierAllocation(t))))
                       > 10 * Isqrt(UncorrelatedSum(TierAllocation(t))) + 10

\* the portfolio's own tier allocation is simulated: the simulated risk is
\* above the portfolio_risk create_portfolio stored, and the current risk
\* of the drifted holdings has off-diagonal terms too
C22_Witness ==
    /\ result.op = "simulate"
    /\ result.proposed_allocation = WholePercent(created.allocation)
    /\ result.metrics.new_risk > 10 * created.portfolio_risk + 10
    /\ result.metrics.current_risk > 0
    /\ \E a \in AssetClasses, b \in AssetClasses :
          /\ a # b /\ correlation_matrix[a][b] # 0
          /\ result.drift_analysis[a].current_num > 0
          /\ result.drift_analysis[b].current_num > 0

\* the summed current value of the holdings of class a in the last analysis
ClassValue(a) ==
    SumOver(result.value,
            {i \in 1..Len(portfolio.holdings) : portfolio.holdings[i].asset_class = a})

\* C23: the DriftReport has exactly one entry per asset class of the target
\* allocation, classes with a 0% target or no holding included (their
\* current_percentage is 0); in each entry
\*   current_percentage = the class's summed holding value / total x 100,
\*   drift_percentage = current_percentage - target_percentage,
\*   drift_amount = drift_percentage / 100 x total current value.
\* The percentages are compared as numerators over the total; the amount is
\* in whole rupees, rounded down.
C23_DriftReportEntries ==
    AnalysedDrift =>
        LET total == result.total_current_value
        IN /\ DOMAIN result.drift_analysis = DOMAIN portfolio.allocation
           /\ total = SumSeq(result.value)
           /\ \A a \in DOMAIN portfolio.allocation :
                 LET e == result.drift_analysis[a]
                 IN /\ e.target_percentage = portfolio.allocation[a]
                    /\ e.current_num = 100 * ClassValue(a)
                    /\ (\A i \in 1..Len(portfolio.holdings) :
                            portfolio.holdings[i].asset_class # a) => e.current_num = 0
                    /\ e.drift_num = e.current_num - e.target_percentage * total
                    /\ 100 * e.drift_amount <= e.drift_num
                    /\ e.drift_num < 100 * e.drift_amount + 100

\* a Low portfolio is analysed: Small Cap Equity, at 0% with no holding,
\* has an entry with current and drift 0, while another class is overweight
\* and a third underweight
C23_Witness ==
    /\ result.op = "drift"
    /\ portfolio.allocation["Small Cap Equity"] = 0
    /\ \A i \in 1..Len(portfolio.holdings) :
          portfolio.holdings[i].asset_class # "Small Cap Equity"
    /\ result.drift_analysis["Small Cap Equity"].current_num = 0
    /\ result.drift_analysis["Small Cap Equity"].drift_num = 0
    /\ \E a \in AssetClasses, b \in AssetClasses :
          /\ result.drift_analysis[a].drift_amount > 0
          /\ result.drift_analysis[b].drift_amount < 0

\* C24: for every indicator snapshot, live or simulated,
\* confidence = min(0.95, 0.7 + 5 x |momentum| + (0.1 if the trend is not
\* sideways else 0)), so the returned confidence lies in [0.7, 0.95], inside
\* the declared 0-1 range.  (Confidence and momentum are in units of 0.0001.)
C24_ConfidenceFormula ==
    result.op = "market" =>
        LET m == result.market
            momentum == IF m.data.momentum < 0 THEN -m.data.momentum ELSE m.data.momentum
            raw == 7000 + 5 * momentum + (IF m.data.trend = "sideways" THEN 0 ELSE 1000)
        IN /\ m.confidence = IF raw < 9500 THEN raw ELSE 9500
           /\ m.confidence >= 7000
           /\ m.confidence <= 9500
           /\ m.confidence >= 0 /\ m.confidence <= 10000

\* a live snapshot with strong momentum: the cap of 0.95 applies
C24_Witness ==
    /\ result.op = "market"
    /\ result.market.data_source = "live"
    /\ result.market.data.momentum < -1000
    /\ result.market.data.trend = "bearish"
    /\ result.market.confidence = 9500

\* a simulated snapshot from the except branch whose confidence is below
\* the cap
C24_WitnessSimulated ==
    /\ result.op = "market"
    /\ result.nifty.kind = "raise"
    /\ result.market.data_source = "simulated"
    /\ result.market.data.momentum # 0
    /\ result.market.confidence > 7000
    /\ result.market.confidence < 9500

\* C25: calculate_risk_score assigns exactly one category from the
\* percentage score = total / max x 100: Conservative with risk_level Low
\* iff score <= 35, Moderate with Medium iff 35 < score <= 65, Aggressive
\* with High iff score > 65; category and risk_level always correspond, and
\* for non-negative answers the score never exceeds 100.
C25_RiskCategory ==
    result.op = "risk_score" =>
        LET r == result.profile
            atMost(pct) == r.total_score * 100 <= pct * r.max_score
        IN /\ r.max_score > 0
           /\ <<r.category, r.risk_level>>
                 \in {<<"Conservative", "Low">>, <<"Moderate", "Medium">>,
                      <<"Aggressive", "High">>}
           /\ (r.category = "Conservative") <=> atMost(35)
           /\ (r.category = "Moderate") <=> (~atMost(35) /\ atMost(65))
           /\ (r.category = "Aggressive") <=> ~atMost(65)
           /\ r.total_score >= 0
           /\ atMost(100)
           /\ r.score <= 1000

\* a score of exactly 35 is Conservative
C25_Witness ==
    /\ result.op = "risk_score"
    /\ result.profile.total_score * 100 = 35 * result.profile.max_score
    /\ result.profile.category = "Conservative"
    /\ result.profile.risk_level = "Low"

\* a score of exactly 65 is Moderate
C25_WitnessModerate ==
    /\ result.op = "risk_score"
    /\ result.profile.total_score * 100 = 65 * result.profile.max_score
    /\ result.profile.category = "Moderate"
    /\ result.profile.risk_level = "Medium"

\* every answer at its highest, the loss tolerance beyond the cap: the
\* score is exactly 100 and Aggressive
C25_WitnessFull ==
    /\ result.op = "risk_score"
    /\ result.answers["loss_tolerance"] = 100
    /\ result.profile.total_score = result.profile.max_score
    /\ result.profile.score = 1000
    /\ result.profile.category = "Aggressive"

\* the precondition of C26 on the analysed portfolio
AnalysedCovered ==
    /\ AnalysedDrift
    /\ \A i \in 1..Len(portfolio.holdings) :
          portfolio.holdings[i].asset_class \in DOMAIN portfolio.allocation
    /\ SumOver(portfolio.allocation, DOMAIN portfolio.allocation) = 100
    /\ result.total_current_value > 0

\* C26: whenever every holding's asset class is a key of the target
\* allocation, the target sums to 100 and the total current value is
\* positive, the report's current_percentage values sum to 100 and its
\* drift_percentage and drift_amount values sum to 0, so the overweight of
\* some classes equals the aggregate underweight of the others.  (Sums of
\* the numerators over the total; the amounts in whole rupees sum to 0 up to
\* the rounding of each entry.)
C26_DriftSumsToZero ==
    AnalysedCovered =>
        LET d == result.drift_analysis
            classes == DOMAIN d
            over == {a \in classes : d[a].drift_num > 0}
        IN /\ SumOver([a \in classes |-> d[a].current_num], classes)
                 = 100 * result.total_current_value
           /\ SumOver([a \in classes |-> d[a].drift_num], classes) = 0
           /\ SumOver([a \in over |-> d[a].drift_num], over)
                 = -SumOver([a \in classes \ over |-> d[a].drift_num], classes \ over)
           /\ SumOver([a \in classes |-> d[a].drift_amount], classes) <= 0
           /\ SumOver([a \in classes |-> d[a].drift_amount], classes)
                 > -Cardinality(classes)

\* an analysis in which one class is overweight by more than 1% of the total
C26_Witness ==
    /\ AnalysedCovered
    /\ result.op = "drift"
    /\ \E a \in AssetClasses :
          result.drift_analysis[a].drift_num > result.total_current_value
    /\ \E b \in AssetClasses : result.drift_analysis[b].drift_num < 0

\* no asset class of the report has |drift_percentage| > 5
NoClassDrifted ==
    \A a \in DOMAIN result.drift_analysis :
        /\ result.drift_analysis[a].drift_num <= 5 * result.total_current_value
        /\ result.drift_analysis[a].drift_num >= -(5 * result.total_current_value)

\* C27: whenever the classified regime is bull_market or bear_market the
\* confidence equals 0.95, so the confidence > 0.8 guard never suppresses the
\* regime recommendation; get_rebalancing_recommendations returns an empty
\* list if and only if no asset class has |drift| > 5 and the regime is
\* stable_market.
C27_EmptyIffCalmAndStable ==
    result.op = "recommend" =>
        /\ result.market.condition \in {"bull_market", "bear_market"}
              => /\ result.market.confidence = 9500
                 /\ Len(result.recommendations) > 0
                 /\ result.recommendations[Len(result.recommendations)].action = "INCREASE"
        /\ (result.recommendations = <<>>)
              <=> (NoClassDrifted /\ result.market.condition = "stable_market")

\* a bull market classified from live data with no class drifted beyond 5:
\* the list holds the equity recommendation only
C27_Witness ==
    /\ result.op = "recommend"
    /\ result.market.condition = "bull_market"
    /\ result.market.data_source = "live"
    /\ result.market.confidence = 9500
    /\ NoClassDrifted
    /\ Len(result.recommendations) = 1
    /\ result.recommendations[1].asset = "Equity Allocation"

\* a stable market and drifts of exactly +5 and -5: the list is empty
C27_WitnessEmpty ==
    /\ result.op = "recommend"
    /\ result.market.condition = "stable_market"
    /\ \E a \in AssetClasses :
          result.drift_analysis[a].drift_num = 5 * result.total_current_value
    /\ result.recommendations = <<>>

\* a bear market classified in the except branch
C27_WitnessBear ==
    /\ result.op = "recommend"
    /\ result.nifty.kind = "raise"
    /\ result.market.condition = "bear_market"
    /\ result.market.confidence = 9500

\* C28: the rebalancer's table of per-class return and risk has exactly the
\* catalog's six classes and agrees with the catalog on each; the correlation
\* matrix is symmetric with unit diagonal over that same set; so the
\* simulation of the portfolio's own allocation yields the expected return
\* create_portfolio computed (new_return is in thousandths, expected_return
\* in hundredths of a percent).
C28_TablesAgree ==
    /\ DOMAIN asset_details = DOMAIN asset_classes
    /\ Cardinality(DOMAIN asset_details) = 6
    /\ \A a \in DOMAIN asset_classes :
          /\ asset_details[a].return = asset_classes[a].return
          /\ asset_details[a].risk = asset_classes[a].risk
          /\ DetailReturn(a) = asset_classes[a].return
          /\ DetailRisk(a) = asset_classes[a].risk
    /\ DOMAIN correlation_matrix = DOMAIN asset_classes
    /\ \A a \in DOMAIN correlation_matrix :
          /\ DOMAIN correlation_matrix[a] = DOMAIN asset_classes
          /\ correlation_matrix[a][a] = 100
          /\ \A b \in DOMAIN correlation_matrix :
                correlation_matrix[a][b] = correlation_matrix[b][a]
    /\ (result.op = "simulate"
          /\ result.proposed_allocation = WholePercent(created.allocation))
          => result.metrics.new_return = 10 * created.expected_return

\* the portfolio's own allocation is simulated and the simulated return is
\* the expected return of its creation
C28_Witness ==
    /\ result.op = "simulate"
    /\ result.proposed_allocation = WholePercent(created.allocation)
    /\ created.expected_return > 0
    /\ result.metrics.new_return = 10 * created.expected_return

\* C29: with outlook 'neutral', or any outlook string that is not bullish,
\* bearish or neutral, and a target allocation summing to 100,
\* calculate_optimal_allocation returns the target allocation unchanged for
\* every risk tolerance, an unrecognised one included.
C29_NeutralReturnsTarget ==
    (/\ result.op = "optimal"
     /\ result.market_outlook \notin {"bullish", "bearish"}
     /\ SumOver(portfolio.allocation, DOMAIN portfolio.allocation) = 100)
        => LET o == result.optimal_allocation
           IN /\ o.raised = "none"
              /\ DOMAIN o.num = DOMAIN portfolio.allocation
              /\ \A a \in DOMAIN o.num : o.num[a] = portfolio.allocation[a] * o.den

\* an unrecognised outlook with an unrecognised tolerance on a custom target
C29_Witness ==
    /\ result.op = "optimal"
    /\ result.market_outlook = "unclear"
    /\ result.risk_tolerance = "Unknown"
    /\ portfolio.allocation \notin {TierAllocation(t) : t \in RiskTiers}
    /\ \A a \in AssetClasses :
          result.optimal_allocation.num[a]
             = portfolio.allocation[a] * result.optimal_allocation.den

\* the neutral outlook with the High tolerance on the High tier target,
\* while a bearish call changes the same target
C29_WitnessNeutral ==
    /\ result.op = "optimal"
    /\ result.market_outlook = "neutral"
    /\ result.risk_tolerance = "High"
    /\ portfolio.allocation = TierAllocation("High")
    /\ result.optimal_allocation
          # CalculateOptimalAllocation(portfolio, "High", "bearish")

\* the last call was a classifier call that ended in the except branch
FellBack == result.op = "market" /\ result.nifty.kind \in {"raise", "ok_raise"}

\* what a call in the except branch returns when the seed is k
SnapshotOfSeed(k) ==
    AnalyzeMarketConditions([kind |-> "raise", vol |-> 0, mom |-> 0, ma |-> "above"],
                            [kind |-> "raise", corr |-> 0], k)

\* C30: in the except branch the global random source is reseeded with
\* floor(clock seconds / 3600) mod 100 before the draws, so two classifier
\* calls that both take this branch within the same clock hour return
\* identical volatility, momentum, trend, correlation, regime and
\* confidence, and at most 100 distinct simulated snapshots can ever be
\* produced.
C30_SameHourSameSnapshot ==
    /\ [](FellBack =>
            /\ result.market = SnapshotOfSeed(hour % 100)
            /\ result.market.data_source = "simulated"
            /\ rng = RngAdvance(Seed(hour % 100), 3)
            /\ result.market \in {SnapshotOfSeed(k) : k \in 0..99}
            /\ Cardinality({SnapshotOfSeed(k) : k \in 0..99}) <= 100)
    /\ [][(FellBack /\ FellBack' /\ hour' = hour) => result'.market = result.market]_vars

\* a call in the except branch in a later hour, made when the global
\* generator stood elsewhere than the seed: the snapshot is that of the seed
C30_Witness ==
    /\ FellBack
    /\ hour > 0
    /\ Seed(hour % 100) # 0
    /\ result.nifty.kind = "ok_raise"
    /\ result.market = SnapshotOfSeed(hour % 100)
    /\ result.market # SnapshotOfSeed(0)
====
